---------------------------- MODULE Spec2Model ----------------------------
(***************************************************************************)
(* Client-side reconciliation and presentation engine of the research log: *)
(* the archive page (briefings-archive.js), the post-page enhancer and the *)
(* tag-archive page.  Text is modelled as sequences of one-character       *)
(* strings so that case folding, trimming, slugging and substring search   *)
(* are computed the way the scripts compute them.                          *)
(***************************************************************************)
EXTENDS Integers, Sequences, FiniteSets, TLC

VARIABLES
    \* ---- archive page (briefings-archive.js)
    dom,            \* which optional elements / capabilities the page has
    fetchState,     \* "pending" | "done" | "failed"
    allItems,       \* the loaded catalogue
    items,          \* the active subset
    rendered,       \* number of items of the active subset already rendered
    listEl,         \* the cards in the list container, in order
    observer,       \* "null" | "connected" | "disconnected"
    loadMoreHidden, \* hidden flag of the load-more control
    statusText,     \* text of the status element
    summaryText,    \* text of the summary element
    filters,        \* [cluster, timeframe, query]
    searchTimer,    \* handle of the last search timeout (never nulled)
    searchPending,  \* search timeouts that have not fired and were not cleared
    resetTimers,    \* pending zero-delay timeouts of the form's reset listener
    now,            \* the clock read by new Date(), in milliseconds
    \* ---- post page enhancer
    post,           \* the post page: inputs, promise state and results
    \* ---- pure functions under test
    fn,             \* [op, in, out]
    \* ---- homepage widgets and the tag-archive page
    hero,           \* the highlight rotator (hero-highlight.js, first closure)
    feed,           \* the latest-briefings widget (latest.js / hero-highlight.js, third closure)
    tagPage         \* the tag-archive page

archiveVars == <<dom, fetchState, allItems, items, rendered, listEl, observer,
                 loadMoreHidden, statusText, summaryText, filters, searchTimer,
                 searchPending, resetTimers, now>>
widgetVars == <<hero, feed, tagPage>>
vars == <<archiveVars, post, fn, widgetVars>>

-----------------------------------------------------------------------------
(* Characters and strings *)

UpperChars == <<"A","B","C","D","E","F","G","H","I","J","K","L","M",
                "N","O","P","Q","R","S","T","U","V","W","X","Y","Z">>
LowerChars == <<"a","b","c","d","e","f","g","h","i","j","k","l","m",
                "n","o","p","q","r","s","t","u","v","w","x","y","z">>
DigitChars == {"0","1","2","3","4","5","6","7","8","9"}
SpaceChars == {" ", "\t", "\n"}

UpperSet == {UpperChars[i] : i \in 1..26}
LowerSet == {LowerChars[i] : i \in 1..26}
IsUpper(c) == c \in UpperSet
IsLower(c) == c \in LowerSet
IsDigit(c) == c \in DigitChars
IsSpace(c) == c \in SpaceChars
\* \w of a JavaScript regular expression
IsWord(c) == IsUpper(c) \/ IsLower(c) \/ IsDigit(c) \/ c = "_"

LowerTable == [c \in UpperSet |-> LowerChars[CHOOSE i \in 1..26 : UpperChars[i] = c]]
UpperTable == [c \in LowerSet |-> UpperChars[CHOOSE i \in 1..26 : LowerChars[i] = c]]
LowerChar(c) == IF c \in UpperSet THEN LowerTable[c] ELSE c
UpperChar(c) == IF c \in LowerSet THEN UpperTable[c] ELSE c

toLowerCase(s) == [i \in 1..Len(s) |-> LowerChar(s[i])]
toUpperCase(s) == [i \in 1..Len(s) |-> UpperChar(s[i])]

RECURSIVE TrimLeft(_)
TrimLeft(s) == IF s # <<>> /\ IsSpace(Head(s)) THEN TrimLeft(Tail(s)) ELSE s
RECURSIVE TrimRight(_)
TrimRight(s) ==
    IF s # <<>> /\ IsSpace(s[Len(s)]) THEN TrimRight(SubSeq(s, 1, Len(s) - 1)) ELSE s
trim(s) == TrimRight(TrimLeft(s))

\* s.replace(/[set]+/g, r) : every maximal run of characters of the set becomes r
RECURSIVE ReplaceRuns(_, _, _)
ReplaceRuns(s, set, r) ==
    IF s = <<>> THEN <<>>
    ELSE IF Head(s) \in set
         THEN IF Len(s) > 1 /\ s[2] \in set THEN ReplaceRuns(Tail(s), set, r)
                                             ELSE r \o ReplaceRuns(Tail(s), set, r)
         ELSE <<Head(s)>> \o ReplaceRuns(Tail(s), set, r)
\* s.replace(/[set]/g, r) for a one-character replacement r
ReplaceEach(s, set, r) == [i \in 1..Len(s) |-> IF s[i] \in set THEN r ELSE s[i]]
\* s.replace(/\b\w/g, upper) : upper-case the first character of every word
UpperWordStarts(s) ==
    [i \in 1..Len(s) |->
        IF IsWord(s[i]) /\ (i = 1 \/ ~IsWord(s[i - 1])) THEN UpperChar(s[i]) ELSE s[i]]

\* hay.indexOf(needle) !== -1
Contains(hay, needle) ==
    \E i \in 0..(Len(hay) - Len(needle)) : SubSeq(hay, i + 1, i + Len(needle)) = needle
RECURSIVE join(_, _)
join(parts, sep) ==
    IF parts = <<>> THEN <<>>
    ELSE IF Len(parts) = 1 THEN parts[1]
    ELSE parts[1] \o sep \o join(Tail(parts), sep)
RECURSIVE Flatten(_)
Flatten(parts) == IF parts = <<>> THEN <<>> ELSE Head(parts) \o Flatten(Tail(parts))

\* the only element of a one-element set
Only(S) == CHOOSE x \in S : TRUE

\* All sequences over S of length at most n
SeqsUpTo(S, n) == UNION {[1..k -> S] : k \in 0..n}

\* the five characters escapeHtml rewrites
escapeChar(c) ==
    CASE c = "&" -> <<"&","a","m","p",";">>
      [] c = "<" -> <<"&","l","t",";">>
      [] c = ">" -> <<"&","g","t",";">>
      [] c = "\"" -> <<"&","q","u","o","t",";">>
      [] c = "'" -> <<"&","#","3","9",";">>
      [] OTHER -> <<c>>
EscapedChars == {"&", "<", ">", "\"", "'"}
escapeHtml(s) ==
    IF \A i \in 1..Len(s) : s[i] \notin EscapedChars THEN s
    ELSE Flatten([i \in 1..Len(s) |-> escapeChar(s[i])])

-----------------------------------------------------------------------------
(* Archive page: briefings-archive.js *)

PAGE_SIZE == 12
MS_IN_DAY == 24 * 60 * 60 * 1000

\* Bounds of the model
ShortCatalogue == 2   \* length of the short (single page) catalogues
MaxTicks == 1         \* half-day clock advances during one page view
MaxResetTimers == 1   \* concurrently pending reset-listener timeouts

NaN == [nan |-> TRUE, v |-> 0]
Num(n) == [nan |-> FALSE, v |-> n]

DigitSeq == <<"0","1","2","3","4","5","6","7","8","9">>
DigitValue(c) == (CHOOSE i \in 1..10 : DigitSeq[i] = c) - 1
RECURSIVE ToDigits(_)
ToDigits(n) == IF n < 10 THEN <<DigitSeq[n + 1]>> ELSE ToDigits(n \div 10) \o <<DigitSeq[(n % 10) + 1]>>
RECURSIVE LeadingDigits(_)
LeadingDigits(s) ==
    IF s # <<>> /\ IsDigit(Head(s)) THEN <<Head(s)>> \o LeadingDigits(Tail(s)) ELSE <<>>
RECURSIVE DigitsValue(_)
DigitsValue(d) ==
    IF d = <<>> THEN 0 ELSE 10 * DigitsValue(SubSeq(d, 1, Len(d) - 1)) + DigitValue(d[Len(d)])
\* parseInt(s, 10)
parseInt(s) ==
    LET t == TrimLeft(s)
        signed == t # <<>> /\ t[1] \in {"-", "+"}
        d == LeadingDigits(IF signed THEN Tail(t) ELSE t)
    IN  IF d = <<>> THEN NaN
        ELSE Num(IF signed /\ t[1] = "-" THEN 0 - DigitsValue(d) ELSE DigitsValue(d))

\* as_of values: a calendar date (parsed with the T00:00:00Z suffix), a string
\* only new Date(value) parses, an unparsable string, or no value at all
IsoDate(day) == [kind |-> "iso", ms |-> day * MS_IN_DAY]
OtherDate(ms) == [kind |-> "other", ms |-> ms]
BadDate == [kind |-> "bad", ms |-> 0]
NoDate == [kind |-> "missing", ms |-> 0]
\* new Date(value + 'T00:00:00Z'), else new Date(value); getTime()
parseDate(as_of) == IF as_of.kind \in {"iso", "other"} THEN Num(as_of.ms) ELSE NaN

TxtAll == <<"a","l","l">>
TxtSeven == <<"7">>
TxtShippingSqueeze == <<"S","h","i","p","p","i","n","g"," ","s","q","u","e","e","z","e">>
TxtCreditCrunch == <<"C","r","e","d","i","t"," ","c","r","u","n","c","h">>
TxtRates == <<"R","a","t","e","s">>
TxtSHIPPING == <<"S","H","I","P","P","I","N","G">>
TxtUsCre == <<"u","s","_","c","r","e">>
TxtPorts == <<"P","o","r","t","s">>
TxtShipping == <<"S","h","i","p","p","i","n","g">>
TxtSearchShipping == <<" ","S","h","i","p","p","i","n","g"," ">>
TxtSearchHu == <<"h","u">>
TxtUntitled == <<"U","n","t","i","t","l","e","d"," ","b","r","i","e","f","i","n","g">>
TxtHtml == <<".","h","t","m","l">>

KindShipping ==
    [slug |-> <<>>, title |-> TxtShippingSqueeze, summary |-> <<>>, cluster |-> TxtSHIPPING,
     as_of |-> IsoDate(3), tags |-> <<>>]
KindCredit ==
    [slug |-> <<>>, title |-> TxtCreditCrunch, summary |-> <<>>, cluster |-> TxtUsCre,
     as_of |-> IsoDate(0), tags |-> <<[label |-> TxtPorts, name |-> <<>>]>>]
KindRates ==
    [slug |-> <<>>, title |-> <<>>, summary |-> TxtRates, cluster |-> <<>>,
     as_of |-> NoDate, tags |-> <<[label |-> <<>>, name |-> TxtShipping]>>]

CatalogueLens == {0, ShortCatalogue, PAGE_SIZE + 1}
Patterns ==
    { <<KindShipping>>, <<KindShipping, KindCredit>>, <<KindCredit, KindRates>>,
      <<KindRates, KindShipping, KindCredit>> }
\* slugs are unique within a catalogue
Catalogue(pattern, n) ==
    [i \in 1..n |-> [pattern[((i - 1) % Len(pattern)) + 1] EXCEPT !.slug = <<"p">> \o ToDigits(i)]]
Catalogues == {Catalogue(p, n) : p \in Patterns, n \in CatalogueLens}
\* response bodies that parse as JSON: with an items array, or without one
ArchivePayloads ==
    {[hasItems |-> TRUE, items |-> c] : c \in Catalogues} \cup {[hasItems |-> FALSE, items |-> <<>>]}

SearchInputs == {<<>>, TxtSearchShipping, TxtSearchHu}
TimeframeValues == {TxtAll, TxtSeven, <<>>}
\* the select offers the empty option and one option per upper-cased cluster
populateClusterOptions(dataset) ==
    {toUpperCase(dataset[i].cluster) : i \in {j \in 1..Len(dataset) : dataset[j].cluster # <<>>}}
ClusterValues == {<<>>} \cup populateClusterOptions(allItems)

DomConfigs ==
    { [loadMoreBtn |-> TRUE, sentinelEl |-> TRUE, intersectionObserver |-> TRUE, controlsForm |-> TRUE],
      [loadMoreBtn |-> TRUE, sentinelEl |-> TRUE, intersectionObserver |-> FALSE, controlsForm |-> TRUE],
      [loadMoreBtn |-> TRUE, sentinelEl |-> FALSE, intersectionObserver |-> TRUE, controlsForm |-> FALSE],
      [loadMoreBtn |-> FALSE, sentinelEl |-> TRUE, intersectionObserver |-> TRUE, controlsForm |-> TRUE],
      [loadMoreBtn |-> TRUE, sentinelEl |-> TRUE, intersectionObserver |-> TRUE, controlsForm |-> FALSE] }

DefaultFilters == [cluster |-> <<>>, timeframe |-> TxtAll, query |-> <<>>]

Status(msg) == [msg |-> msg, n |-> 0, total |-> 0]
StatusLoading == Status("Loading all briefings")
StatusNoMatch == Status("No briefings match your filters yet.")
StatusPreparing == Status("Preparing filtered archive")
StatusAllLoaded == Status("All filtered briefings are loaded.")
StatusUnavailable == Status("All briefings data is unavailable.")
StatusUnable == Status("Unable to load the archive right now. Please try again later.")
StatusShowing(n, total) == [msg |-> "Showing n of total matching briefings.", n |-> n, total |-> total]

formatClusterLabel(value) ==
    IF value = <<>> THEN <<>>
    ELSE IF value = toUpperCase(value) THEN value
    ELSE UpperWordStarts(ReplaceEach(value, {"_"}, " "))

clusterVisuals ==
    { <<<<"S","H","I","P","P","I","N","G">>, "ocean">>, <<<<"E","U","R","O","_","S","O","V">>, "sovereign">>, <<<<"U","S","_","C","R","E">>, "credit">>,
      <<<<"C","H","I","N","A","_","C","R","E","D","I","T">>, "asia">>, <<<<"O","D","T","E">>, "volatility">>, <<<<"A","I","_","P","O","W","E","R">>, "energy">>,
      <<<<"A","G","R","I","T","E","C","H">>, "growth">> }
resolveVisual(cluster) ==
    LET key == toUpperCase(cluster)
    IN  IF \E v \in clusterVisuals : v[1] = key
        THEN (CHOOSE v \in clusterVisuals : v[1] = key)[2]
        ELSE "default"

\* label of a tag: tag.label || tag.name
TagLabel(tag) == IF tag.label # <<>> THEN tag.label ELSE tag.name

\* the labels shown on a card: the cluster label, then up to four labels in all
RECURSIVE UniqueLabels(_, _)
UniqueLabels(unique, tags) ==
    IF tags = <<>> THEN unique
    ELSE LET label == TagLabel(Head(tags))
         IN  IF label = <<>> \/ \E i \in 1..Len(unique) : toLowerCase(unique[i]) = toLowerCase(label)
             THEN UniqueLabels(unique, Tail(tags))
             ELSE IF Len(unique) + 1 >= 4 THEN Append(unique, label)
             ELSE UniqueLabels(Append(unique, label), Tail(tags))
renderTags(clusterLabel, tags) ==
    LET unique == UniqueLabels(IF clusterLabel # <<>> THEN <<clusterLabel>> ELSE <<>>, tags)
    IN  [i \in 1..Len(unique) |-> escapeHtml(unique[i])]

\* formatDate: '' without a value, the escaped value when unparsable, else the
\* locale rendering of the parsed instant
formatDate(as_of) ==
    IF as_of.kind = "missing" THEN [kind |-> "none", ms |-> 0]
    ELSE IF parseDate(as_of).nan THEN [kind |-> "raw", ms |-> 0]
    ELSE [kind |-> "locale", ms |-> parseDate(as_of).v]

createCard(item) ==
    LET slug == item.slug
        href == IF slug # <<>> THEN slug \o TxtHtml ELSE <<"#">>
        title == IF item.title # <<>> THEN item.title
                 ELSE IF slug # <<>> THEN slug ELSE TxtUntitled
        clusterLabel == formatClusterLabel(item.cluster)
    IN  [theme |-> resolveVisual(item.cluster),
         href |-> escapeHtml(href),
         date |-> formatDate(item.as_of),
         title |-> escapeHtml(title),
         summary |-> escapeHtml(item.summary),
         tags |-> renderTags(clusterLabel, item.tags)]

\* The rendering state the handlers pass along
View == [items |-> items, rendered |-> rendered, listEl |-> listEl, observer |-> observer,
         loadMoreHidden |-> loadMoreHidden, statusText |-> statusText,
         summaryText |-> summaryText]

\* resetRendering that leaves the load-more control as it was
resetRendering_keepsButton(R) ==
    [R EXCEPT !.rendered = 0,
              !.observer = "null",
              !.listEl = <<>>]

\* resetRendering that forgets to empty the list container
resetRendering_keepsList(R) ==
    [R EXCEPT !.rendered = 0,
              !.observer = "null",
              !.loadMoreHidden = IF dom.loadMoreBtn THEN TRUE ELSE @]

resetRendering(R) ==
    [R EXCEPT !.rendered = 0,
              !.observer = "null",
              !.loadMoreHidden = IF dom.loadMoreBtn THEN TRUE ELSE @,
              !.listEl = <<>>]

\* the catalogues carry no generated_at, so the summary has no "updated" part
NoSummary == [visible |-> 0, total |-> 0, cluster |-> <<>>, timeframe |-> <<>>]
updateSummary(R, all, F) ==
    IF all = <<>> THEN [R EXCEPT !.summaryText = NoSummary]
    ELSE [R EXCEPT !.summaryText =
            [visible |-> Len(R.items), total |-> Len(all),
             cluster |-> formatClusterLabel(F.cluster),
             timeframe |-> IF F.timeframe # TxtAll THEN F.timeframe ELSE <<>>]]

\* matchesCluster without the "no constraint" guard
matchesCluster_noGuard(item, F) == toLowerCase(item.cluster) = toLowerCase(F.cluster)

matchesCluster(item, F) ==
    IF F.cluster = <<>> THEN TRUE
    ELSE toLowerCase(item.cluster) = toLowerCase(F.cluster)

\* matchesTimeframe that rejects an item whose date does not parse
matchesTimeframe_failClosed(item, F, clock) ==
    IF F.timeframe = <<>> \/ F.timeframe = TxtAll THEN TRUE
    ELSE LET days == parseInt(F.timeframe)
             itemDate == parseDate(item.as_of)
         IN  IF days.nan \/ days.v = 0 \/ item.as_of.kind = "missing" THEN TRUE
             ELSE IF itemDate.nan THEN FALSE
             ELSE clock - itemDate.v <= days.v * MS_IN_DAY

matchesTimeframe(item, F, clock) ==
    IF F.timeframe = <<>> \/ F.timeframe = TxtAll THEN TRUE
    ELSE LET days == parseInt(F.timeframe)
             itemDate == parseDate(item.as_of)
         IN  IF days.nan \/ days.v = 0 \/ item.as_of.kind = "missing" THEN TRUE
             ELSE IF itemDate.nan THEN TRUE
             ELSE clock - itemDate.v <= days.v * MS_IN_DAY

\* matchesQuery that forgets to lower-case the haystack
matchesQuery_caseSensitive(item, F) ==
    LET labels == SelectSeq([i \in 1..Len(item.tags) |-> TagLabel(item.tags[i])],
                            LAMBDA l : l # <<>>)
        joined == join(<<item.title, item.summary, item.cluster>> \o labels, <<" ">>)
    IN  IF F.query = <<>> THEN TRUE ELSE Contains(joined, F.query)

matchesQuery(item, F) ==
    LET query == F.query
        labels == SelectSeq([i \in 1..Len(item.tags) |-> TagLabel(item.tags[i])],
                            LAMBDA l : l # <<>>)
        haystack == <<item.title, item.summary, item.cluster>> \o labels
        joined == toLowerCase(join(haystack, <<" ">>))
    IN  IF query = <<>> THEN TRUE ELSE Contains(joined, query)

\* renderNextPage that appends a single card per call
renderNextPage_oneCard(R) ==
    IF R.items = <<>> \/ R.rendered >= Len(R.items) THEN
        [R EXCEPT !.statusText = IF R.items = <<>> THEN StatusNoMatch ELSE StatusAllLoaded,
                  !.loadMoreHidden = IF dom.loadMoreBtn THEN TRUE ELSE @,
                  !.observer = IF @ # "null" THEN "disconnected" ELSE @]
    ELSE
        LET count == R.rendered + 1
            grown == Append(R.listEl, createCard(R.items[count]))
        IN  IF count >= Len(R.items) THEN
                [R EXCEPT !.listEl = grown, !.rendered = count,
                          !.statusText = StatusAllLoaded,
                          !.loadMoreHidden = IF dom.loadMoreBtn THEN TRUE ELSE @,
                          !.observer = IF @ # "null" THEN "disconnected" ELSE @]
            ELSE
                [R EXCEPT !.listEl = grown, !.rendered = count,
                          !.statusText = StatusShowing(count, Len(R.items)),
                          !.loadMoreHidden = IF dom.loadMoreBtn THEN FALSE ELSE @]

\* renderNextPage that slices the next page from the start of the subset
renderNextPage_fromStart(R) ==
    IF R.items = <<>> \/ R.rendered >= Len(R.items) THEN
        [R EXCEPT !.statusText = IF R.items = <<>> THEN StatusNoMatch ELSE StatusAllLoaded,
                  !.loadMoreHidden = IF dom.loadMoreBtn THEN TRUE ELSE @,
                  !.observer = IF @ # "null" THEN "disconnected" ELSE @]
    ELSE
        LET last == IF PAGE_SIZE < Len(R.items) THEN PAGE_SIZE ELSE Len(R.items)
            nextItems == SubSeq(R.items, 1, last)
            count == R.rendered + Len(nextItems)
            grown == R.listEl \o [i \in 1..Len(nextItems) |-> createCard(nextItems[i])]
        IN  IF count >= Len(R.items) THEN
                [R EXCEPT !.listEl = grown, !.rendered = count,
                          !.statusText = StatusAllLoaded,
                          !.loadMoreHidden = IF dom.loadMoreBtn THEN TRUE ELSE @,
                          !.observer = IF @ # "null" THEN "disconnected" ELSE @]
            ELSE
                [R EXCEPT !.listEl = grown, !.rendered = count,
                          !.statusText = StatusShowing(count, Len(R.items)),
                          !.loadMoreHidden = IF dom.loadMoreBtn THEN FALSE ELSE @]

\* renderNextPage that advances the count by a whole page
renderNextPage_fullPage(R) ==
    IF R.items = <<>> \/ R.rendered >= Len(R.items) THEN
        [R EXCEPT !.statusText = IF R.items = <<>> THEN StatusNoMatch ELSE StatusAllLoaded,
                  !.loadMoreHidden = IF dom.loadMoreBtn THEN TRUE ELSE @,
                  !.observer = IF @ # "null" THEN "disconnected" ELSE @]
    ELSE
        LET last == IF R.rendered + PAGE_SIZE < Len(R.items)
                    THEN R.rendered + PAGE_SIZE ELSE Len(R.items)
            nextItems == SubSeq(R.items, R.rendered + 1, last)
            count == R.rendered + PAGE_SIZE
            grown == R.listEl \o [i \in 1..Len(nextItems) |-> createCard(nextItems[i])]
        IN  IF count >= Len(R.items) THEN
                [R EXCEPT !.listEl = grown, !.rendered = count,
                          !.statusText = StatusAllLoaded,
                          !.loadMoreHidden = IF dom.loadMoreBtn THEN TRUE ELSE @,
                          !.observer = IF @ # "null" THEN "disconnected" ELSE @]
            ELSE
                [R EXCEPT !.listEl = grown, !.rendered = count,
                          !.statusText = StatusShowing(count, Len(R.items)),
                          !.loadMoreHidden = IF dom.loadMoreBtn THEN FALSE ELSE @]

renderNextPage(R) ==
    IF R.items = <<>> THEN
        [R EXCEPT !.statusText = StatusNoMatch,
                  !.loadMoreHidden = IF dom.loadMoreBtn THEN TRUE ELSE @,
                  !.observer = IF @ # "null" THEN "disconnected" ELSE @]
    ELSE IF R.rendered >= Len(R.items) THEN
        [R EXCEPT !.statusText = StatusAllLoaded,
                  !.loadMoreHidden = IF dom.loadMoreBtn THEN TRUE ELSE @,
                  !.observer = IF @ # "null" THEN "disconnected" ELSE @]
    ELSE
        LET last == IF R.rendered + PAGE_SIZE < Len(R.items)
                    THEN R.rendered + PAGE_SIZE ELSE Len(R.items)
            nextItems == SubSeq(R.items, R.rendered + 1, last)
            count == R.rendered + Len(nextItems)
            grown == R.listEl \o [i \in 1..Len(nextItems) |-> createCard(nextItems[i])]
        IN  IF count >= Len(R.items) THEN
                [R EXCEPT !.listEl = grown, !.rendered = count,
                          !.statusText = StatusAllLoaded,
                          !.loadMoreHidden = IF dom.loadMoreBtn THEN TRUE ELSE @,
                          !.observer = IF @ # "null" THEN "disconnected" ELSE @]
            ELSE
                [R EXCEPT !.listEl = grown, !.rendered = count,
                          !.statusText = StatusShowing(count, Len(R.items)),
                          !.loadMoreHidden = IF dom.loadMoreBtn THEN FALSE ELSE @]

activateInfiniteScroll(R) ==
    IF ~dom.intersectionObserver \/ ~dom.sentinelEl
    THEN [R EXCEPT !.loadMoreHidden = IF dom.loadMoreBtn THEN FALSE ELSE @]
    ELSE [R EXCEPT !.observer = "connected",
                   !.loadMoreHidden = IF dom.loadMoreBtn THEN TRUE ELSE @]

\* applyFilters that lists the matching items newest-last (reversed)
applyFilters_reversed(R, all, F, clock) ==
    Only({ IF active = <<>>
           THEN Only({ [cleared EXCEPT !.statusText = StatusNoMatch] :
                       cleared \in {updateSummary(resetRendering([R EXCEPT !.items = active]), all, F)} })
           ELSE Only({ renderNextPage(armed) :
                       armed \in { activateInfiniteScroll([cleared EXCEPT !.statusText = StatusPreparing]) :
                                   cleared \in {updateSummary(resetRendering([R EXCEPT !.items = active]), all, F)} } })
           : active \in { [i \in 1..Len(kept) |-> kept[Len(kept) + 1 - i]] :
                          kept \in { SelectSeq(all, LAMBDA item :
                              matchesCluster(item, F) /\ matchesTimeframe(item, F, clock)
                              /\ matchesQuery(item, F)) } } })

\* applyFilters that narrows the previous subset instead of the catalogue
applyFilters_incremental(R, all, F, clock) ==
    Only({ IF active = <<>>
           THEN Only({ [cleared EXCEPT !.statusText = StatusNoMatch] :
                       cleared \in {updateSummary(resetRendering([R EXCEPT !.items = active]), all, F)} })
           ELSE Only({ renderNextPage(armed) :
                       armed \in { activateInfiniteScroll([cleared EXCEPT !.statusText = StatusPreparing]) :
                                   cleared \in {updateSummary(resetRendering([R EXCEPT !.items = active]), all, F)} } })
           : active \in { SelectSeq(IF R.items # <<>> THEN R.items ELSE all, LAMBDA item :
                              matchesCluster(item, F) /\ matchesTimeframe(item, F, clock)
                              /\ matchesQuery(item, F)) } })

\* (each intermediate result is bound once, as a value)
applyFilters(R, all, F, clock) ==
    Only({ IF active = <<>>
           THEN Only({ [cleared EXCEPT !.statusText = StatusNoMatch] :
                       cleared \in {updateSummary(resetRendering([R EXCEPT !.items = active]), all, F)} })
           ELSE Only({ renderNextPage(armed) :
                       armed \in { activateInfiniteScroll([cleared EXCEPT !.statusText = StatusPreparing]) :
                                   cleared \in {updateSummary(resetRendering([R EXCEPT !.items = active]), all, F)} } })
           : active \in { SelectSeq(all, LAMBDA item :
                              matchesCluster(item, F) /\ matchesTimeframe(item, F, clock)
                              /\ matchesQuery(item, F)) } })

SetView(R) ==
    /\ items' = R.items
    /\ rendered' = R.rendered
    /\ listEl' = R.listEl
    /\ observer' = R.observer
    /\ loadMoreHidden' = R.loadMoreHidden
    /\ statusText' = R.statusText
    /\ summaryText' = R.summaryText

NoSearchTimer == [state |-> "null", value |-> <<>>]
FiredSearchTimer == [state |-> "fired", value |-> <<>>]
LiveSearchTimer(v) == [state |-> "live", value |-> v]

ClockStart == 10 * MS_IN_DAY
ClockStep == MS_IN_DAY \div 2

ArchiveInit ==
    /\ dom \in DomConfigs
    /\ fetchState = "pending"
    /\ allItems = <<>>
    /\ items = <<>>
    /\ rendered = 0
    /\ listEl = <<>>
    /\ observer = "null"
    /\ loadMoreHidden = TRUE
    /\ statusText = StatusLoading
    /\ summaryText = NoSummary
    /\ filters = DefaultFilters
    /\ searchTimer = NoSearchTimer
    /\ searchPending = {}
    /\ resetTimers = 0
    /\ now = ClockStart

\* fetch(...).then(response.json()).then(ingestData)
ingestData(payload) ==
    /\ fetchState = "pending"
    /\ fetchState' = "done"
    /\ IF ~payload.hasItems
       THEN /\ SetView([View EXCEPT !.statusText = StatusUnavailable,
                                    !.loadMoreHidden = IF dom.loadMoreBtn THEN TRUE ELSE @])
            /\ allItems' = allItems
       ELSE /\ allItems' = payload.items
            /\ \E R \in {applyFilters(View, payload.items, filters, now)} : SetView(R)
    /\ UNCHANGED <<post, fn, widgetVars, dom, filters, searchTimer, searchPending, resetTimers, now>>

\* non-success status, network error or unparsable body: the catch handler
FetchFails ==
    /\ fetchState = "pending"
    /\ fetchState' = "failed"
    /\ SetView([View EXCEPT !.statusText = StatusUnable,
                            !.loadMoreHidden = IF dom.loadMoreBtn THEN TRUE ELSE @])
    /\ UNCHANGED <<post, fn, widgetVars, dom, allItems, filters, searchTimer, searchPending, resetTimers, now>>

\* handleClusterChange that keeps only the matching items as the catalogue
handleClusterChange_narrowsCatalogue(value) ==
    /\ filters' = [filters EXCEPT !.cluster = value]
    /\ \E R \in {applyFilters(View, allItems, filters', now)} : SetView(R) /\ allItems' = R.items
    /\ UNCHANGED <<post, fn, widgetVars, dom, fetchState, searchTimer, searchPending, resetTimers, now>>

handleClusterChange(value) ==
    /\ filters' = [filters EXCEPT !.cluster = value]
    /\ \E R \in {applyFilters(View, allItems, filters', now)} : SetView(R)
    /\ UNCHANGED <<post, fn, widgetVars, dom, fetchState, allItems, searchTimer, searchPending, resetTimers, now>>

handleTimeframeChange(value) ==
    /\ filters' = [filters EXCEPT !.timeframe = IF value # <<>> THEN value ELSE TxtAll]
    /\ \E R \in {applyFilters(View, allItems, filters', now)} : SetView(R)
    /\ UNCHANGED <<post, fn, widgetVars, dom, fetchState, allItems, searchTimer, searchPending, resetTimers, now>>

\* handleSearchInput that starts a new timeout without clearing the previous one
handleSearchInput_noClear(value) ==
    /\ searchPending' = searchPending \cup {value}
    /\ searchTimer' = LiveSearchTimer(value)
    /\ UNCHANGED <<post, fn, widgetVars, dom, fetchState, allItems, items, rendered, listEl, observer,
                   loadMoreHidden, statusText, summaryText, filters, resetTimers, now>>

\* clearTimeout(searchTimer); searchTimer = setTimeout(..., 180)
handleSearchInput(value) ==
    /\ searchPending' =
          (IF searchTimer.state = "live" THEN searchPending \ {searchTimer.value}
                                         ELSE searchPending) \cup {value}
    /\ searchTimer' = LiveSearchTimer(value)
    /\ UNCHANGED <<post, fn, widgetVars, dom, fetchState, allItems, items, rendered, listEl, observer,
                   loadMoreHidden, statusText, summaryText, filters, resetTimers, now>>

\* the timeout callback of handleSearchInput
SearchTimerFires ==
    \E value \in searchPending :
        /\ searchPending' = searchPending \ {value}
        /\ searchTimer' = IF searchTimer = LiveSearchTimer(value) THEN FiredSearchTimer
                                                                  ELSE searchTimer
        /\ filters' = [filters EXCEPT !.query = toLowerCase(trim(value))]
        /\ \E R \in {applyFilters(View, allItems, filters', now)} : SetView(R)
        /\ UNCHANGED <<post, fn, widgetVars, dom, fetchState, allItems, resetTimers, now>>

\* controlsForm.reset() dispatches 'reset', whose listener schedules handleReset
handleReset ==
    /\ resetTimers' = IF dom.controlsForm THEN resetTimers + 1 ELSE resetTimers
    /\ filters' = DefaultFilters
    /\ \E R \in {applyFilters(View, allItems, filters', now)} : SetView(R)
    /\ UNCHANGED <<post, fn, widgetVars, dom, fetchState, allItems, searchTimer, searchPending, now>>

\* click on the reset button
ResetClick ==
    /\ dom.controlsForm => resetTimers < MaxResetTimers
    /\ handleReset

\* the zero-delay timeout scheduled by the form's reset listener
ResetTimerFires ==
    /\ resetTimers > 0
    /\ resetTimers' = resetTimers
    /\ filters' = DefaultFilters
    /\ \E R \in {applyFilters(View, allItems, filters', now)} : SetView(R)
    /\ UNCHANGED <<post, fn, widgetVars, dom, fetchState, allItems, searchTimer, searchPending, now>>

onIntersection(isIntersecting) ==
    /\ observer = "connected"
    /\ \E R \in {IF isIntersecting THEN renderNextPage(View) ELSE View} : SetView(R)
    /\ UNCHANGED <<post, fn, widgetVars, dom, fetchState, allItems, filters, searchTimer, searchPending,
                   resetTimers, now>>

onLoadMore ==
    /\ dom.loadMoreBtn /\ ~loadMoreHidden
    /\ \E R \in {renderNextPage(View)} : SetView(R)
    /\ UNCHANGED <<post, fn, widgetVars, dom, fetchState, allItems, filters, searchTimer, searchPending,
                   resetTimers, now>>

\* time passes between events
Tick ==
    /\ now < ClockStart + MaxTicks * ClockStep
    /\ now' = now + ClockStep
    /\ UNCHANGED <<post, fn, widgetVars, dom, fetchState, allItems, items, rendered, listEl, observer,
                   loadMoreHidden, statusText, summaryText, filters, searchTimer,
                   searchPending, resetTimers>>

ArchiveNext ==
    \/ \E payload \in ArchivePayloads : ingestData(payload)
    \/ FetchFails
    \/ \E value \in ClusterValues : handleClusterChange(value)
    \/ \E value \in TimeframeValues : handleTimeframeChange(value)
    \/ \E value \in SearchInputs : handleSearchInput(value)
    \/ SearchTimerFires
    \/ ResetClick
    \/ ResetTimerFires
    \/ \E isIntersecting \in BOOLEAN : onIntersection(isIntersecting)
    \/ onLoadMore
    \/ Tick

PostIdle == post = <<>>
FnIdle == fn = <<>>
HeroIdle == hero = <<>>
FeedIdle == feed = <<>>
TagPageIdle == tagPage = <<>>
WidgetsIdle == HeroIdle /\ FeedIdle /\ TagPageIdle

Init == ArchiveInit /\ PostIdle /\ FnIdle /\ WidgetsIdle
Next == ArchiveNext
Spec == Init /\ [][Next]_vars

-----------------------------------------------------------------------------
(* Properties of the archive page *)

TerminalStatuses == {StatusNoMatch, StatusAllLoaded}

\* C1: the rendered count stays within 0..length of the active subset, and a
\* call of renderNextPage is a terminal no-op (nothing appended, count unchanged,
\* terminal status) exactly when rendered = length of the active subset.
C1_RenderedWithinSubset ==
    /\ 0 <= rendered /\ rendered <= Len(items)
    /\ \A R \in {renderNextPage(View)} :
          (rendered = Len(items)) <=>
              (R.listEl = listEl /\ R.rendered = rendered /\ R.statusText \in TerminalStatuses)
\* both pages of a two-page subset have been rendered
C1_Witness == Len(items) > PAGE_SIZE /\ rendered = Len(items) /\ statusText = StatusAllLoaded

\* C2: the list container holds exactly the cards of the first `rendered` items
\* of the current active subset, in order.
C2_ListIsPrefixOfCurrentSubset ==
    /\ rendered <= Len(items)
    /\ listEl = [i \in 1..rendered |-> createCard(items[i])]
\* a narrower filter was applied after a full first page had been shown
C2_Witness ==
    /\ Len(allItems) > PAGE_SIZE
    /\ filters.query # <<>>
    /\ items # <<>> /\ Len(items) < Len(allItems)
    /\ rendered = Len(items)
    /\ searchTimer.state = "fired"

\* C3: under the all-pass default filter state the active subset is the full
\* catalogue, same items in the same order.
C3_DefaultFilterKeepsCatalogue == filters = DefaultFilters => items = allItems
\* the default state was restored after a search had been applied
C3_Witness ==
    /\ fetchState = "done" /\ Len(allItems) > PAGE_SIZE
    /\ filters = DefaultFilters
    /\ searchTimer.state = "fired"
    /\ items = allItems

\* the full catalogue filtered by filter state F at clock reading `clock`
FilteredCatalogue(all, F, clock) ==
    SelectSeq(all, LAMBDA item :
        /\ F.cluster # <<>> => toLowerCase(item.cluster) = toLowerCase(F.cluster)
        /\ matchesTimeframe(item, F, clock)
        /\ matchesQuery(item, F))

\* C4 as stated: the active subset is the full catalogue filtered by the current
\* filter state, in every state.
C4_SubsetIsFilterOfCatalogue == items = FilteredCatalogue(allItems, filters, now)

\* C4 amended: every step that changes the filter state, the catalogue or the
\* active subset sets the active subset to the full catalogue filtered by the new
\* filter state at the clock reading of that step.
C4_RecomputedFromCatalogue ==
    [][ (filters' # filters \/ allItems' # allItems \/ items' # items)
            => items' = FilteredCatalogue(allItems', filters', now') ]_vars
\* two filter dimensions are active over a loaded catalogue
C4_Witness ==
    /\ filters.cluster # <<>> /\ filters.query # <<>>
    /\ items # <<>> /\ Len(items) < Len(allItems)

\* the haystack of the query predicate: plain concatenation, or joined by spaces
QueryLabels(item) ==
    SelectSeq([i \in 1..Len(item.tags) |-> TagLabel(item.tags[i])], LAMBDA l : l # <<>>)
ConcatenatedHaystack(item) ==
    toLowerCase(Flatten(<<item.title, item.summary, item.cluster>> \o QueryLabels(item)))
SpaceJoinedHaystack(item) ==
    toLowerCase(join(<<item.title, item.summary, item.cluster>> \o QueryLabels(item), <<" ">>))
OnlyQueryActive == filters.cluster = <<>> /\ filters.timeframe = TxtAll

\* C10 as stated: with only the query active, an item is kept iff the query is
\* empty or a substring of the lower-cased concatenation of title, summary,
\* cluster and tag labels.
C10_QueryOverConcatenation ==
    OnlyQueryActive =>
        items = SelectSeq(allItems, LAMBDA item :
                    filters.query = <<>> \/ Contains(ConcatenatedHaystack(item), filters.query))

\* C10 amended: the haystack is title, summary, cluster and tag labels joined by
\* single spaces.
C10_QueryOverSpaceJoinedFields ==
    OnlyQueryActive =>
        items = SelectSeq(allItems, LAMBDA item :
                    filters.query = <<>> \/ Contains(SpaceJoinedHaystack(item), filters.query))
\* query "shipping" over [Shipping squeeze, Credit crunch] keeps only the first
C10_Witness ==
    /\ OnlyQueryActive
    /\ filters.query = toLowerCase(TxtShipping)
    /\ Len(allItems) = ShortCatalogue
    /\ allItems[1].title = TxtShippingSqueeze /\ allItems[2].title = TxtCreditCrunch
    /\ items = <<allItems[1]>>

\* C13: at most one search timer is pending; a keystroke leaves exactly the
\* timer of that keystroke pending; and a firing timer applies the filter once
\* with the trimmed, lower-cased value of the last keystroke.
C13_SearchDebounce ==
    [][/\ Cardinality(searchPending') <= 1
       /\ (searchTimer' # searchTimer /\ searchTimer'.state = "live")
              => searchPending' = {searchTimer'.value}
       /\ (searchPending' # searchPending /\ searchTimer'.state # "live")
              => /\ searchTimer.state = "live" /\ searchPending' = {}
                 /\ filters'.query = toLowerCase(trim(searchTimer.value))
                 /\ items' = FilteredCatalogue(allItems, filters', now)]_vars
\* an earlier search has been applied and the timer of a newer keystroke is pending
C13_Witness ==
    /\ searchTimer = LiveSearchTimer(TxtSearchHu) /\ searchPending = {TxtSearchHu}
    /\ filters.query = toLowerCase(TxtShipping)
    /\ allItems # <<>>

-----------------------------------------------------------------------------
(* Tags, titles and the event index: post page and tag-archive page *)

SlugChars == LowerSet \cup DigitChars \cup SpaceChars \cup {"-"}
\* .replace(/^-|-$/g, '')
StripEdgeHyphens(s) ==
    LET a == IF s # <<>> /\ s[1] = "-" THEN Tail(s) ELSE s
    IN  IF a # <<>> /\ a[Len(a)] = "-" THEN SubSeq(a, 1, Len(a) - 1) ELSE a

\* slugify whose edge-hyphen strip runs before the hyphen runs are collapsed
slugify_stripFirst(value) ==
    ReplaceRuns(
        StripEdgeHyphens(
            ReplaceRuns(
                trim(SelectSeq(ReplaceRuns(toLowerCase(value), {"_"}, <<" ">>),
                               LAMBDA c : c \in SlugChars)),
                SpaceChars, <<"-">>)),
        {"-"}, <<"-">>)

\* slugify of the post page
slugify(value) ==
    StripEdgeHyphens(
        ReplaceRuns(
            ReplaceRuns(
                trim(SelectSeq(ReplaceRuns(toLowerCase(value), {"_"}, <<" ">>),
                               LAMBDA c : c \in SlugChars)),
                SpaceChars, <<"-">>),
            {"-"}, <<"-">>))

\* slugify of the tag-archive page: underscores are dropped, not turned into spaces
slugify_tagArchive(value) ==
    StripEdgeHyphens(
        ReplaceRuns(
            ReplaceRuns(
                trim(SelectSeq(toLowerCase(value), LAMBDA c : c \in SlugChars)),
                SpaceChars, <<"-">>),
            {"-"}, <<"-">>))

normalizeLabel(value) ==
    LET text == ReplaceRuns(trim(value), {"_", "-"}, <<" ">>)
    IN  IF trim(value) = <<>> THEN <<>>
        ELSE IF text = toUpperCase(text) THEN text
        ELSE UpperWordStarts(toLowerCase(text))

normalizeTitle(value) == trim(ReplaceRuns(toLowerCase(value), SpaceChars, <<" ">>))

\* dedupeTags that keeps every tag with a slug
dedupeTags_keepsAll(tags) == SelectSeq(tags, LAMBDA tag : tag.slug # <<>>)

RECURSIVE dedupeTags(_)
dedupeTags(tags) ==
    IF tags = <<>> THEN <<>>
    ELSE LET front == dedupeTags(SubSeq(tags, 1, Len(tags) - 1))
             tag == tags[Len(tags)]
         IN  IF tag.slug = <<>> \/ \E i \in 1..Len(front) : front[i].slug = tag.slug
             THEN front ELSE Append(front, tag)

\* addTag(label, slugHint): the tag, or nothing when its slug or label is empty
addTag(label, slugHint, slugger) ==
    LET labelText == normalizeLabel(label)
        hint == IF slugHint # <<>> THEN slugHint ELSE labelText
        slug == IF slugger = "post" THEN slugify(hint) ELSE slugify_tagArchive(hint)
    IN  IF slug = <<>> \/ labelText = <<>> THEN <<>> ELSE <<[slug |-> slug, label |-> labelText]>>

\* TagCandidates with the item's own cluster pushed before the event's fields
TagCandidates_itemClusterFirst(item, event, slugger) ==
    (IF item # <<>> /\ item[1].cluster # <<>>
     THEN addTag(item[1].cluster, item[1].cluster, slugger) ELSE <<>>)
    \o (IF event # <<>>
        THEN (IF event[1].cluster # <<>> THEN addTag(event[1].cluster, event[1].cluster, slugger)
              ELSE IF event[1].fp_cluster # <<>>
                   THEN addTag(event[1].fp_cluster, event[1].fp_cluster, slugger)
              ELSE <<>>)
             \o (IF event[1].event_type # <<>>
                 THEN addTag(event[1].event_type, event[1].event_type, slugger) ELSE <<>>)
        ELSE <<>>)
    \o (IF item # <<>>
        THEN SelectSeq(item[1].tags, LAMBDA tag : tag.label # <<>> /\ tag.slug # <<>>)
        ELSE <<>>)

\* the candidates taken from the event and the item, in the order they are pushed;
\* item and event are sequences of length at most one (empty for null)
TagCandidates(item, event, slugger) ==
    (IF event # <<>>
     THEN (IF event[1].cluster # <<>> THEN addTag(event[1].cluster, event[1].cluster, slugger)
           ELSE IF event[1].fp_cluster # <<>>
                THEN addTag(event[1].fp_cluster, event[1].fp_cluster, slugger)
           ELSE <<>>)
          \o (IF event[1].event_type # <<>>
              THEN addTag(event[1].event_type, event[1].event_type, slugger) ELSE <<>>)
     ELSE <<>>)
    \o (IF item # <<>> /\ item[1].cluster # <<>>
        THEN addTag(item[1].cluster, item[1].cluster, slugger) ELSE <<>>)
    \o (IF item # <<>>
        THEN SelectSeq(item[1].tags, LAMBDA tag : tag.label # <<>> /\ tag.slug # <<>>)
        ELSE <<>>)

\* collectTagsFromItem of the post page
collectTagsFromItem(item, event, domTags) ==
    dedupeTags(domTags \o TagCandidates(item, event, "post"))

\* collectTagsFromItem of the tag-archive page (its own inline deduplication)
collectTagsFromItem_tagArchive(item, event) ==
    dedupeTags(TagCandidates(item, event, "tagArchive"))

\* links of the post meta block: [preview, text]
extractDomTags(metaLinks) ==
    dedupeTags(
        [i \in 1..Len(SelectSeq(metaLinks, LAMBDA l :
                l.text # <<>> /\ l.preview \in {"Event type", "Cluster"})) |->
            LET link == SelectSeq(metaLinks, LAMBDA l :
                            l.text # <<>> /\ l.preview \in {"Event type", "Cluster"})[i]
            IN  [slug |-> slugify(link.text), label |-> normalizeLabel(link.text)]])

\* buildEventIndex whose title index lets a later event replace an earlier one
RECURSIVE buildEventIndex_titleLastWins(_)
buildEventIndex_titleLastWins(events) ==
    IF events = <<>> THEN [byUid |-> <<>>, byTitle |-> <<>>]
    ELSE LET front == buildEventIndex_titleLastWins(SubSeq(events, 1, Len(events) - 1))
             event == events[Len(events)]
             key == normalizeTitle(event.title)
         IN  IF event.isNull THEN front
             ELSE [byUid |-> IF event.uid # <<>> THEN (event.uid :> event) @@ front.byUid
                             ELSE front.byUid,
                   byTitle |-> IF event.title # <<>> /\ key # <<>>
                               THEN (key :> event) @@ front.byTitle
                               ELSE front.byTitle]

\* buildEventIndex whose uid index keeps the first event of a uid
RECURSIVE buildEventIndex_uidFirstWins(_)
buildEventIndex_uidFirstWins(events) ==
    IF events = <<>> THEN [byUid |-> <<>>, byTitle |-> <<>>]
    ELSE LET front == buildEventIndex_uidFirstWins(SubSeq(events, 1, Len(events) - 1))
             event == events[Len(events)]
             key == normalizeTitle(event.title)
         IN  IF event.isNull THEN front
             ELSE [byUid |-> IF event.uid # <<>> THEN front.byUid @@ (event.uid :> event)
                             ELSE front.byUid,
                   byTitle |-> IF event.title # <<>> /\ key # <<>> /\ key \notin DOMAIN front.byTitle
                               THEN front.byTitle @@ (key :> event)
                               ELSE front.byTitle]

\* buildEventIndex: byUid keeps the last event of a uid, byTitle the first event
\* of a non-empty normalized title; null entries are skipped
RECURSIVE buildEventIndex(_)
buildEventIndex(events) ==
    IF events = <<>> THEN [byUid |-> <<>>, byTitle |-> <<>>]
    ELSE LET front == buildEventIndex(SubSeq(events, 1, Len(events) - 1))
             event == events[Len(events)]
             key == normalizeTitle(event.title)
         IN  IF event.isNull THEN front
             ELSE [byUid |-> IF event.uid # <<>> THEN (event.uid :> event) @@ front.byUid
                             ELSE front.byUid,
                   byTitle |-> IF event.title # <<>> /\ key # <<>> /\ key \notin DOMAIN front.byTitle
                               THEN front.byTitle @@ (key :> event)
                               ELSE front.byTitle]

-----------------------------------------------------------------------------
(* Source links of the post page *)

\* A source entry as written in the registry: an absolute URL given by its
\* parts, a string no URL parser accepts, or an empty/null entry.
Url(scheme, host, port, path, query) ==
    [kind |-> "url", scheme |-> scheme, host |-> host, port |-> port, path |-> path,
     query |-> query, text |-> <<>>]
InvalidUrl(text) ==
    [kind |-> "invalid", scheme |-> <<>>, host |-> <<>>, port |-> <<>>, path |-> <<>>,
     query |-> <<>>, text |-> text]
EmptyUrl ==
    [kind |-> "empty", scheme |-> <<>>, host |-> <<>>, port |-> <<>>, path |-> <<>>,
     query |-> <<>>, text |-> <<>>]

TxtHttps == <<"h","t","t","p","s">>
TxtHttp == <<"h","t","t","p">>
DefaultPort(protocol) ==
    IF protocol = TxtHttps THEN <<"4","4","3">> ELSE IF protocol = TxtHttp THEN <<"8","0">> ELSE <<>>

\* new URL(url, base) of an absolute URL: scheme and host are lower-cased, a
\* default port is dropped, an empty path becomes "/"
parseUrl(raw) ==
    [protocol |-> toLowerCase(raw.scheme),
     hostname |-> toLowerCase(raw.host),
     port |-> IF raw.port = DefaultPort(toLowerCase(raw.scheme)) THEN <<>> ELSE raw.port,
     pathname |-> IF raw.path = <<>> THEN <<"/">> ELSE raw.path,
     search |-> raw.query]

\* normalizeSourceUrl that keeps the trailing slash of the path
normalizeSourceUrl_keepsSlash(raw) ==
    IF raw.kind = "empty" THEN <<>>
    ELSE IF raw.kind = "invalid" THEN trim(raw.text)
    ELSE LET parsed == parseUrl(raw)
         IN  parsed.protocol \o <<":","/","/">> \o toLowerCase(parsed.hostname)
             \o (IF parsed.port # <<>> THEN <<":">> \o parsed.port ELSE <<>>)
             \o (IF parsed.pathname # <<"/">> THEN parsed.pathname ELSE <<>>)

normalizeSourceUrl(raw) ==
    IF raw.kind = "empty" THEN <<>>
    ELSE IF raw.kind = "invalid" THEN trim(raw.text)
    ELSE LET parsed == parseUrl(raw)
             path == parsed.pathname
         IN  parsed.protocol \o <<":","/","/">> \o toLowerCase(parsed.hostname)
             \o (IF parsed.port # <<>> THEN <<":">> \o parsed.port ELSE <<>>)
             \o (IF path # <<>> /\ path # <<"/">>
                 THEN (IF path[Len(path)] = "/" THEN SubSeq(path, 1, Len(path) - 1) ELSE path)
                 ELSE <<>>)

\* the host part of a normalized "scheme://host[:port][/path]" string; empty
\* when the string is no such URL (new URL throws)
RECURSIVE UpTo(_, _)
UpTo(s, stops) == IF s = <<>> \/ Head(s) \in stops THEN <<>> ELSE <<Head(s)>> \o UpTo(Tail(s), stops)
HostOf(url) ==
    LET scheme == UpTo(url, {":"})
        rest == SubSeq(url, Len(scheme) + 1, Len(url))
        host == UpTo(SubSeq(rest, 4, Len(rest)), {":", "/"})
    IN  IF scheme = <<>> \/ Len(rest) < 3 \/ SubSeq(rest, 1, 3) # <<":","/","/">> THEN <<>>
        ELSE IF \E i \in 1..Len(host) : ~(IsWord(host[i]) \/ host[i] \in {".", "-"}) THEN <<>>
        ELSE host

sourceLabelFromUrl(url) ==
    LET host == toLowerCase(HostOf(url))
    IN  IF host = <<>> THEN url
        ELSE IF Len(host) >= 4 /\ SubSeq(host, 1, 4) = <<"w","w","w",".">>
             THEN (IF Len(host) > 4 THEN SubSeq(host, 5, Len(host)) ELSE url)
        ELSE host

\* renderSources: the links of the appended section (none: no section)
RECURSIVE renderSources(_)
renderSources(sources) ==
    IF sources = <<>> THEN <<>>
    ELSE LET front == renderSources(SubSeq(sources, 1, Len(sources) - 1))
             raw == sources[Len(sources)]
             normalized == normalizeSourceUrl(raw)
         IN  IF normalized = <<>> \/ \E i \in 1..Len(front) : front[i].normalized = normalized
             THEN front
             ELSE Append(front, [url |-> raw, normalized |-> normalized,
                                 label |-> sourceLabelFromUrl(normalized)])

-----------------------------------------------------------------------------
(* Post page enhancer *)

MaxPostCatalogue == 3   \* longest catalogue drawn from PostItems
MaxEvents == 2          \* longest registry drawn from PostEvents

TxtExampleCom == <<"e","x","a","m","p","l","e",".","c","o","m">>
TxtExampleMixed == <<"E","x","a","m","p","l","e",".","c","o","m">>
TxtWwwExample == <<"w","w","w",".","e","x","a","m","p","l","e",".","c","o","m">>

SourceA == Url(TxtHttps, TxtExampleCom, <<>>, <<"/","a">>, <<>>)
SourceASlash == Url(TxtHttps, TxtExampleMixed, <<>>, <<"/","a","/">>, <<>>)
SourceATracked == Url(<<"H","T","T","P","S">>, TxtExampleCom, <<"4","4","3">>, <<"/","a">>, <<"?","u","t","m","=","1">>)
SourceAPlain == Url(TxtHttp, TxtExampleCom, <<>>, <<"/","a">>, <<>>)
SourceWww == Url(TxtHttps, TxtWwwExample, <<"8","0","8","0">>, <<>>, <<>>)
SourceBroken == InvalidUrl(<<" ","h","t","t","p",":","/","/","["," ">>)

PostItem(slug, title, event_uid, cluster, tags) ==
    [isNull |-> FALSE, slug |-> slug, title |-> title, event_uid |-> event_uid,
     cluster |-> cluster, tags |-> tags, as_of |-> NoDate]
NullItem ==
    [isNull |-> TRUE, slug |-> <<>>, title |-> <<>>, event_uid |-> <<>>,
     cluster |-> <<>>, tags |-> <<>>, as_of |-> NoDate]
ItemC == PostItem(<<"c">>, <<"B","a","z">>, <<"2">>, <<>>, <<>>)
ItemB == PostItem(<<"b">>, <<"f","o","o"," "," "," ","b","a","r">>, <<>>, <<"u","s","_","c","r","e">>,
                  <<[slug |-> <<"u","s","-","c","r","e">>, label |-> <<"U","S"," ","C","R","E">>], [slug |-> <<"A","I">>, label |-> <<"A","I">>]>>)
ItemUpperB == PostItem(<<"B">>, <<" "," "," ">>, <<>>, <<"A","I">>, <<[slug |-> <<"a","i">>, label |-> <<"A","i">>]>>)
ItemA == PostItem(<<"a">>, <<"B","a","z">>, <<"9">>, <<>>, <<>>)
PostItems == {ItemC, ItemB, ItemUpperB, ItemA}

Event(uid, title, cluster, fp_cluster, event_type, sources) ==
    [isNull |-> FALSE, uid |-> uid, title |-> title, cluster |-> cluster,
     fp_cluster |-> fp_cluster, event_type |-> event_type, sources |-> sources]
NullEvent ==
    [isNull |-> TRUE, uid |-> <<>>, title |-> <<>>, cluster |-> <<>>,
     fp_cluster |-> <<>>, event_type |-> <<>>, sources |-> <<>>]
EventFooBar == Event(<<"1">>, <<"F","o","o"," ","B","a","r">>, <<>>, <<"u","s","_","c","r","e">>, <<"r","a","t","e","_","s","h","o","c","k">>,
                     <<SourceASlash, SourceA, EmptyUrl, SourceATracked, SourceAPlain>>)
EventFooBarAgain == Event(<<"2">>, <<" ","F","O","O"," "," ","b","a","r"," ">>, <<"A","I">>, <<>>, <<"A","I">>, <<SourceWww, SourceBroken, SourceWww>>)
EventBaz == Event(<<"1">>, <<"B","a","z">>, <<"-","-">>, <<>>, <<>>, <<EmptyUrl>>)
EventBlank == Event(<<>>, <<" "," ">>, <<>>, <<>>, <<"u","s","-","c","r","e">>, <<SourceA>>)
PostEvents == {EventFooBar, EventFooBarAgain, EventBaz, EventBlank}

\* a fetch that failed (caught and turned into null), a body without the
\* expected array, or a body with it
Failed == [ok |-> FALSE, hasList |-> FALSE, list |-> <<>>]
NoList == [ok |-> TRUE, hasList |-> FALSE, list |-> <<>>]
WithList(list) == [ok |-> TRUE, hasList |-> TRUE, list |-> list]
PostArchivePayloads ==
    {Failed, NoList, WithList(<<ItemC, NullItem, ItemB, ItemA>>)}
        \cup {WithList(c) : c \in SeqsUpTo(PostItems, MaxPostCatalogue)}
PostEventsPayloads ==
    {Failed, NoList, WithList(<<NullEvent, EventBlank, EventFooBarAgain, EventFooBar>>)}
        \cup {WithList(e) : e \in SeqsUpTo(PostEvents, MaxEvents)}

\* last segment of the page's pathname
PagePaths == {<<"b",".","h","t","m","l">>, <<"a",".","h","t","m","l">>, <<"i","n","d","e","x",".","h","t","m","l">>, <<"b">>}
\* the post meta links of the page markup
MetaLinkSets ==
    { <<>>,
      <<[preview |-> "Cluster", text |-> <<"U","S","_","C","R","E">>], [preview |-> "Event type", text |-> <<"a","i">>],
        [preview |-> "Date", text |-> <<"M","a","y">>]>> }

getSlugFromLocation(candidate) ==
    IF candidate = <<>> THEN <<>>
    ELSE IF Len(candidate) < 5 \/ SubSeq(candidate, Len(candidate) - 4, Len(candidate)) # TxtHtml
         THEN <<>>
    ELSE LET name == SubSeq(candidate, 1, Len(candidate) - 5)
         IN  IF name = <<>> \/ name = <<"i","n","d","e","x">> THEN <<>> ELSE name

\* findArchiveItem that compares slugs case-sensitively
findArchiveItem_caseSensitive(list, slug) ==
    IF \E i \in 1..Len(list) : list[i].slug = slug
    THEN (CHOOSE i \in 1..Len(list) :
            list[i].slug = slug /\ \A j \in 1..(i - 1) : list[j].slug # slug) - 1
    ELSE -1

\* index of the first entry whose slug equals the page slug ignoring case, else -1
findArchiveItem(list, slug) ==
    LET lower == toLowerCase(slug)
        hit(i) == toLowerCase(list[i].slug) = lower
    IN  IF \E i \in 1..Len(list) : hit(i)
        THEN (CHOOSE i \in 1..Len(list) : hit(i) /\ \A j \in 1..(i - 1) : ~hit(j)) - 1
        ELSE -1

\* the cross-referenced event: by identifier, else by normalized title
lookupEvent(currentItem, eventIndex) ==
    IF currentItem # <<>> /\ currentItem[1].event_uid # <<>>
       /\ currentItem[1].event_uid \in DOMAIN eventIndex.byUid
    THEN <<eventIndex.byUid[currentItem[1].event_uid]>>
    ELSE IF currentItem # <<>> /\ currentItem[1].title # <<>>
    THEN LET titleKey == normalizeTitle(currentItem[1].title)
         IN  IF titleKey \in DOMAIN eventIndex.byTitle
             THEN <<eventIndex.byTitle[titleKey]>> ELSE <<>>
    ELSE <<>>

\* selectNeighbours that takes prev from before and next from after
selectNeighbours_swapped(list, index) ==
    [prevItem |-> IF index > 0 /\ ~list[index].isNull THEN <<list[index]>> ELSE <<>>,
     nextItem |-> IF index >= 0 /\ index + 1 < Len(list) /\ ~list[index + 2].isNull
                  THEN <<list[index + 2]>> ELSE <<>>]

\* selectNeighbours without the index >= 0 guard on prevItem
selectNeighbours_noIndexGuard(list, index) ==
    [prevItem |-> IF index + 1 < Len(list) /\ ~list[index + 2].isNull
                  THEN <<list[index + 2]>> ELSE <<>>,
     nextItem |-> IF index > 0 /\ ~list[index].isNull THEN <<list[index]>> ELSE <<>>]

\* prevItem / nextItem for the zero-based index of the current entry
selectNeighbours(list, index) ==
    [prevItem |-> IF index >= 0 /\ index + 1 < Len(list) /\ ~list[index + 2].isNull
                  THEN <<list[index + 2]>> ELSE <<>>,
     nextItem |-> IF index > 0 /\ ~list[index].isNull THEN <<list[index]>> ELSE <<>>]

TxtSeeOther == <<"S","e","e"," ","o","t","h","e","r"," ">>
TxtBriefings == <<" ","b","r","i","e","f","i","n","g","s">>
\* the related-tag links (slug as passed to encodeURIComponent, link text)
renderTags_post(tags) ==
    [i \in 1..Len(tags) |->
        [tag |-> tags[i].slug, text |-> TxtSeeOther \o tags[i].label \o TxtBriefings]]

PaginationLink(item, fallback) ==
    IF item # <<>> /\ item[1].slug # <<>>
    THEN [hidden |-> FALSE, href |-> escapeHtml(item[1].slug) \o TxtHtml,
          title |-> escapeHtml(IF item[1].title # <<>> THEN item[1].title ELSE item[1].slug)]
    ELSE [hidden |-> TRUE, href |-> <<"#">>, title |-> <<>>]
updatePagination(prevItem, nextItem) ==
    [prev |-> PaginationLink(prevItem, "Previous briefing"),
     next |-> PaginationLink(nextItem, "Next briefing"),
     hidden |-> ~((prevItem # <<>> /\ prevItem[1].slug # <<>>)
                  \/ (nextItem # <<>> /\ nextItem[1].slug # <<>>))]

NoResult ==
    [index |-> -1, currentItem |-> <<>>, prevItem |-> <<>>, nextItem |-> <<>>,
     event |-> <<>>, tags |-> <<>>, tagLinks |-> <<>>, tagSectionHidden |-> TRUE,
     pagination |-> updatePagination(<<>>, <<>>), embeddedSources |-> TRUE,
     sourceLinks |-> <<>>]

\* the handler of Promise.all: everything it leaves in the page
Enhance(slug, domTags, archivePayload, eventsPayload) ==
    LET list == IF archivePayload.ok /\ archivePayload.hasList THEN archivePayload.list ELSE <<>>
        events == IF eventsPayload.ok /\ eventsPayload.hasList THEN eventsPayload.list ELSE <<>>
    IN  Only({
          LET currentItem == IF index >= 0 /\ ~list[index + 1].isNull THEN <<list[index + 1]>> ELSE <<>>
              near == selectNeighbours(list, index)
          IN  Only({
                LET sources == IF event # <<>> THEN event[1].sources ELSE <<>>
                IN  Only({
                      [index |-> index, currentItem |-> currentItem,
                       prevItem |-> near.prevItem, nextItem |-> near.nextItem,
                       event |-> event, tags |-> tags, tagLinks |-> renderTags_post(tags),
                       tagSectionHidden |-> tags = <<>>,
                       pagination |-> updatePagination(near.prevItem, near.nextItem),
                       embeddedSources |-> sources = <<>>,
                       sourceLinks |-> renderSources(sources)]
                      : tags \in {collectTagsFromItem(currentItem, event, domTags)} })
                : event \in {lookupEvent(currentItem, buildEventIndex(events))} })
          : index \in {findArchiveItem(list, slug)} })

PostInit ==
    \E path \in PagePaths, links \in MetaLinkSets :
        post = [pc |-> IF getSlugFromLocation(path) = <<>> THEN "off" ELSE "loading",
                slug |-> getSlugFromLocation(path),
                domTags |-> extractDomTags(links),
                archive |-> <<>>, events |-> <<>>, out |-> NoResult]

\* the archive fetch settles (a failure is caught and becomes null)
ArchiveSettles(payload) ==
    /\ post.pc = "loading" /\ post.archive = <<>>
    /\ post' = [post EXCEPT !.archive = <<payload>>]
    /\ UNCHANGED <<archiveVars, fn, widgetVars>>

EventsSettle(payload) ==
    /\ post.pc = "loading" /\ post.events = <<>>
    /\ post' = [post EXCEPT !.events = <<payload>>]
    /\ UNCHANGED <<archiveVars, fn, widgetVars>>

\* Promise.all resolves once both fetches have settled
PromiseAllThen ==
    /\ post.pc = "loading" /\ post.archive # <<>> /\ post.events # <<>>
    /\ post' = [post EXCEPT !.pc = "enhanced",
                            !.out = Enhance(post.slug, post.domTags, post.archive[1], post.events[1])]
    /\ UNCHANGED <<archiveVars, fn, widgetVars>>

ArchiveIdle ==
    /\ dom = [loadMoreBtn |-> FALSE, sentinelEl |-> FALSE, intersectionObserver |-> FALSE,
              controlsForm |-> FALSE]
    /\ fetchState = "idle"
    /\ allItems = <<>> /\ items = <<>> /\ rendered = 0 /\ listEl = <<>>
    /\ observer = "null" /\ loadMoreHidden = TRUE
    /\ statusText = Status("") /\ summaryText = NoSummary
    /\ filters = DefaultFilters
    /\ searchTimer = NoSearchTimer /\ searchPending = {} /\ resetTimers = 0
    /\ now = ClockStart

PostNext ==
    \/ \E payload \in PostArchivePayloads : ArchiveSettles(payload)
    \/ \E payload \in PostEventsPayloads : EventsSettle(payload)
    \/ PromiseAllThen

InitPost == ArchiveIdle /\ PostInit /\ FnIdle /\ WidgetsIdle
SpecPost == InitPost /\ [][PostNext]_vars

-----------------------------------------------------------------------------
(* Properties of the post page *)

Enhanced == post # <<>> /\ post.pc = "enhanced"
PostCatalogue == IF post.archive[1].ok /\ post.archive[1].hasList THEN post.archive[1].list ELSE <<>>
PostRegistry == IF post.events[1].ok /\ post.events[1].hasList THEN post.events[1].list ELSE <<>>
\* the catalogue entry at 1-based position k, as an optional value
EntryAt(list, k) == IF k >= 1 /\ k <= Len(list) /\ ~list[k].isNull THEN <<list[k]>> ELSE <<>>
SlugMatches(list, k) == toLowerCase(list[k].slug) = toLowerCase(post.slug)

\* C5: when the page slug matches catalogue entry i (first match, ignoring case),
\* Prev is the entry after it (none for the last entry) and Next is the entry
\* before it (none for the first entry).
C5_PrevIsAfterNextIsBefore ==
    Enhanced =>
        \A i \in 1..Len(PostCatalogue) :
            (SlugMatches(PostCatalogue, i) /\ \A j \in 1..(i - 1) : ~SlugMatches(PostCatalogue, j))
                => /\ post.out.prevItem = EntryAt(PostCatalogue, i + 1)
                   /\ post.out.nextItem = EntryAt(PostCatalogue, i - 1)
\* catalogue [c, b, a] and page slug b: Prev = a, Next = c
C5_Witness ==
    /\ Enhanced
    /\ PostCatalogue = <<ItemC, ItemB, ItemA>>
    /\ post.slug = <<"b">>
    /\ post.out.prevItem = <<ItemA>> /\ post.out.nextItem = <<ItemC>>

\* no entry of the catalogue carries the page slug (case ignored); true as
\* well of a catalogue that failed to load or is empty
NoCatalogueMatch == \A i \in 1..Len(PostCatalogue) : ~SlugMatches(PostCatalogue, i)

\* C21: when the page slug matches no catalogue entry, or the catalogue failed
\* to load or is empty, no prev and no next link is shown, the pagination nav
\* is hidden, and the enhancer runs to its end.
C21_NoMatchNoPagination ==
    (post # <<>> /\ post.pc \in {"loading", "enhanced"} /\ post.archive # <<>>
     /\ post.events # <<>> /\ NoCatalogueMatch) =>
        /\ ENABLED PromiseAllThen \/ post.pc = "enhanced"
        /\ post.out.currentItem = <<>>
        /\ post.out.prevItem = <<>> /\ post.out.nextItem = <<>>
        /\ post.out.pagination.prev.hidden /\ post.out.pagination.next.hidden
        /\ post.out.pagination.hidden
\* catalogue [c, a] and page slug b, and a catalogue that failed to load
C21_Witness ==
    /\ Enhanced /\ post.slug = <<"b">>
    /\ post.archive[1] \in {WithList(<<ItemC, ItemA>>), Failed}
    /\ post.out.index = -1 /\ post.out.pagination.hidden

\* the title key of the claim: case-folded, whitespace-collapsed, trimmed
ClaimTitleKey(title) == trim(ReplaceRuns(toLowerCase(title), SpaceChars, <<" ">>))
\* the events carrying a title whose key equals the item's, in registry order
TitleMatches(item) ==
    SelectSeq(PostRegistry, LAMBDA e :
        ~e.isNull /\ e.title # <<>> /\ ClaimTitleKey(e.title) = ClaimTitleKey(item.title))
FirstTitleMatch(item) == IF TitleMatches(item) = <<>> THEN <<>> ELSE <<TitleMatches(item)[1]>>
CurrentHasNoUid == Enhanced /\ post.out.currentItem # <<>> /\ post.out.currentItem[1].event_uid = <<>>

\* C6 as stated: an item without event_uid is cross-referenced to the first
\* event of the registry whose normalized title equals its normalized title.
C6_FirstEventOfEqualTitle ==
    CurrentHasNoUid => post.out.event = FirstTitleMatch(post.out.currentItem[1])

\* C6 amended: the same, provided the normalized title is not empty; an item
\* whose title is empty or only whitespace is linked to no event.
C6_FirstEventOfEqualNonEmptyTitle ==
    CurrentHasNoUid =>
        post.out.event = IF ClaimTitleKey(post.out.currentItem[1].title) = <<>> THEN <<>>
                         ELSE FirstTitleMatch(post.out.currentItem[1])
\* item "foo   bar" resolves to the first of two events titled Foo Bar, uid 1
C6_Witness ==
    /\ CurrentHasNoUid
    /\ post.out.currentItem[1].title = ItemB.title
    /\ PostRegistry = <<EventFooBar, EventFooBarAgain>>
    /\ post.out.event = <<EventFooBar>>
    /\ post.out.event[1].uid = <<"1">>

\* the normalized source of the claim: scheme, lower-cased host, port, and the
\* path without trailing slash or query
ClaimSourceKey(raw) ==
    IF raw.kind = "invalid" THEN <<trim(raw.text)>>
    ELSE LET scheme == toLowerCase(raw.scheme)
             path == IF raw.path # <<>> /\ raw.path[Len(raw.path)] = "/"
                     THEN SubSeq(raw.path, 1, Len(raw.path) - 1) ELSE raw.path
         IN  <<scheme, toLowerCase(raw.host),
               IF raw.port = DefaultPort(scheme) THEN <<>> ELSE raw.port, path>>
\* the entries that are the first of their normalized source, in source order
FirstOfEachSource(sources) ==
    LET named == SelectSeq(sources, LAMBDA raw :
                     raw.kind # "empty" /\ (raw.kind = "invalid" => trim(raw.text) # <<>>))
        first(i) == \A j \in 1..(i - 1) : ClaimSourceKey(named[j]) # ClaimSourceKey(named[i])
        keep == {i \in 1..Len(named) : first(i)}
        Rank(i) == Cardinality({j \in keep : j <= i})
    IN  [k \in 1..Cardinality(keep) |-> named[CHOOSE i \in keep : Rank(i) = k]]

\* C9: the rendered source list holds one link per normalized source, the first
\* occurrence of each, in the event's source order.
C9_OneLinkPerNormalizedSource ==
    (Enhanced /\ post.out.event # <<>>) =>
        [i \in 1..Len(post.out.sourceLinks) |-> post.out.sourceLinks[i].url]
            = FirstOfEachSource(post.out.event[1].sources)
\* https://Example.com/a/ and https://example.com/a produce a single link
C9_Witness ==
    /\ Enhanced /\ post.out.event = <<EventFooBar>>
    /\ Len(post.out.sourceLinks) = 2
    /\ post.out.sourceLinks[1].url = SourceASlash
    /\ post.out.sourceLinks[2].url = SourceAPlain

-----------------------------------------------------------------------------
(* The slug and tag functions on their own *)

MaxSlugLen == 4   \* longest text handed to slugify
SlugAlphabet == {"a", "B", "1", " ", "-", "_", "!"}
SlugInputs == SeqsUpTo(SlugAlphabet, MaxSlugLen)

SlugInit ==
    \E value \in SlugInputs :
        fn = [pc |-> "input", variant |-> "none", value |-> value, out |-> <<>>, again |-> <<>>]

\* slugify(value) of the post page
CallSlugify ==
    /\ fn.pc = "input"
    /\ fn' = [fn EXCEPT !.pc = "slugged", !.variant = "post", !.out = slugify(fn.value)]
    /\ UNCHANGED <<archiveVars, post, widgetVars>>

\* slugify(value) of the tag-archive page
CallSlugify_tagArchive ==
    /\ fn.pc = "input"
    /\ fn' = [fn EXCEPT !.pc = "slugged", !.variant = "tagArchive",
                        !.out = slugify_tagArchive(fn.value)]
    /\ UNCHANGED <<archiveVars, post, widgetVars>>

\* the same slugify applied to its own result
CallSlugifyAgain ==
    /\ fn.pc = "slugged"
    /\ fn' = [fn EXCEPT !.pc = "reslugged",
                        !.again = IF fn.variant = "post" THEN slugify(fn.out)
                                  ELSE slugify_tagArchive(fn.out)]
    /\ UNCHANGED <<archiveVars, post, widgetVars>>

SlugNext == CallSlugify \/ CallSlugify_tagArchive \/ CallSlugifyAgain
InitSlug == ArchiveIdle /\ PostIdle /\ SlugInit /\ WidgetsIdle
SpecSlug == InitSlug /\ [][SlugNext]_vars

\* C8: slugify is idempotent in both variants: slugify(slugify(x)) = slugify(x).
C8_SlugifyIdempotent == fn.pc = "reslugged" => fn.again = fn.out
\* "--a B_1" style inputs: a slug that needed underscores, case and hyphens reworked
C8_Witness ==
    /\ fn.pc = "reslugged" /\ fn.variant = "post"
    /\ fn.value = <<"-", "-", "B", "_">>
    /\ fn.out = <<"b">> /\ fn.again = <<"b">>

\* an item whose explicit tags repeat a slug
ItemTwice ==
    PostItem(<<"t">>, <<"T">>, <<>>, <<"A","I">>,
             <<[slug |-> <<"x">>, label |-> <<"X">>], [slug |-> <<"a","i">>, label |-> <<"A","i">>],
               [slug |-> <<"x">>, label |-> <<"O","t","h","e","r">>]>>)
\* an item whose cluster is punctuation only and whose explicit tag is blank
ItemBlankTag ==
    PostItem(<<"p">>, <<>>, <<>>, <<"_","-">>, <<[slug |-> <<" ">>, label |-> <<" ">>]>>)
TagItems == {<<item>> : item \in PostItems \cup {ItemTwice, ItemBlankTag}} \cup {<<>>}
TagEvents == {<<event>> : event \in PostEvents} \cup {<<>>}

TagsInit ==
    \E item \in TagItems, event \in TagEvents, links \in MetaLinkSets :
        fn = [pc |-> "input", variant |-> "none", item |-> item, event |-> event,
              domTags |-> extractDomTags(links), out |-> <<>>]

\* collectTagsFromItem(item, event, domTags) of the post page
CallCollectTags ==
    /\ fn.pc = "input"
    /\ fn' = [fn EXCEPT !.pc = "collected", !.variant = "post",
                        !.out = collectTagsFromItem(fn.item, fn.event, fn.domTags)]
    /\ UNCHANGED <<archiveVars, post, widgetVars>>

\* collectTagsFromItem(item, event) of the tag-archive page
CallCollectTags_tagArchive ==
    /\ fn.pc = "input"
    /\ fn' = [fn EXCEPT !.pc = "collected", !.variant = "tagArchive",
                        !.out = collectTagsFromItem_tagArchive(fn.item, fn.event)]
    /\ UNCHANGED <<archiveVars, post, widgetVars>>

TagsNext == CallCollectTags \/ CallCollectTags_tagArchive
InitTags == ArchiveIdle /\ PostIdle /\ TagsInit /\ WidgetsIdle
SpecTags == InitTags /\ [][TagsNext]_vars

\* C7: the tag list collectTagsFromItem returns, in both variants, never holds
\* two tags with the same slug.
C7_NoDuplicateSlugs ==
    fn.pc = "collected" =>
        \A i, j \in 1..Len(fn.out) : fn.out[i].slug = fn.out[j].slug => i = j
\* event cluster us_cre, item cluster us_cre and an explicit us-cre tag give one tag
C7_Witness ==
    /\ fn.pc = "collected" /\ fn.variant = "tagArchive"
    /\ fn.item = <<ItemB>> /\ fn.event = <<EventBlank>>
    /\ Len(fn.out) = 3
    /\ Cardinality({i \in 1..Len(fn.out) : fn.out[i].slug = <<"u","s","-","c","r","e">>}) = 1

\* the candidate made of one field value: its slug and normalized label, or
\* nothing when the value is absent or one of the two comes out empty
ClaimCandidate(value, variant) ==
    LET slug == IF variant = "post" THEN slugify(value) ELSE slugify_tagArchive(value)
    IN  IF value = <<>> \/ slug = <<>> \/ normalizeLabel(value) = <<>> THEN <<>>
        ELSE <<[slug |-> slug, label |-> normalizeLabel(value)]>>
\* the candidate sequence of the claim for the call recorded in fn
ClaimCandidates ==
    (IF fn.variant = "post" THEN fn.domTags ELSE <<>>)
    \o (IF fn.event = <<>> THEN <<>>
        ELSE ClaimCandidate(IF fn.event[1].cluster # <<>> THEN fn.event[1].cluster
                            ELSE fn.event[1].fp_cluster, fn.variant)
             \o ClaimCandidate(fn.event[1].event_type, fn.variant))
    \o (IF fn.item = <<>> THEN <<>>
        ELSE ClaimCandidate(fn.item[1].cluster, fn.variant)
             \o SelectSeq(fn.item[1].tags, LAMBDA tag : tag.slug # <<>> /\ tag.label # <<>>))
\* the subsequence holding, for each slug, its first occurrence
FirstPerSlug(seq) ==
    LET kept == {i \in 1..Len(seq) : \A j \in 1..(i - 1) : seq[j].slug # seq[i].slug}
        Nth(n) == CHOOSE i \in kept : Cardinality({j \in kept : j < i}) = n - 1
    IN  [n \in 1..Cardinality(kept) |-> seq[Nth(n)]]

\* C20: the reconciled tag list is the candidate sequence DOM tags, event
\* cluster (else the event's fingerprint cluster), event type, item cluster,
\* explicit item tags, reduced to the first candidate of every slug, whose
\* label therefore wins.
C20_FirstCandidatePerSlugInOrder ==
    (fn # <<>> /\ fn.pc = "collected") => fn.out = FirstPerSlug(ClaimCandidates)
\* page links US_CRE and ai, event cluster and type AI, item cluster AI and
\* explicit tags x/X, ai/Ai, x/Other: of eight candidates three remain, the
\* label Ai of the page link and the label X of the first x
C20_Witness ==
    /\ fn # <<>> /\ fn.pc = "collected" /\ fn.variant = "post"
    /\ fn.item = <<ItemTwice>> /\ fn.event = <<EventFooBarAgain>>
    /\ Len(ClaimCandidates) = 8
    /\ fn.out = fn.domTags \o <<[slug |-> <<"x">>, label |-> <<"X">>]>>
    /\ fn.out[2] = [slug |-> <<"a","i">>, label |-> <<"A","i">>]

-----------------------------------------------------------------------------
(* Highlight rotator (hero-highlight.js, first closure) *)

\* payload.risks.slice(0, 5)
HIGHLIGHT_LIMIT == 5

\* Scores are carried in tenths, so 625 stands for 62.5 and Math.round has
\* something to round.  A raw score is a JSON number, a numeric string, absent,
\* or a number literal too large for a double (parsed as Infinity).
ScoreNumber(tenths) == [kind |-> "number", v |-> tenths]
ScoreString(tenths) == [kind |-> "string", v |-> tenths]
ScoreMissing == [kind |-> "missing", v |-> 0]
ScoreInfinity == [kind |-> "infinity", v |-> 0]
ScoreNegInfinity == [kind |-> "-infinity", v |-> 0]

\* Number(value): [nan, inf (-1, 0 or 1), v]
ToNumber(value) ==
    CASE value.kind \in {"number", "string"} -> [nan |-> FALSE, inf |-> 0, v |-> value.v]
      [] value.kind = "missing" -> [nan |-> TRUE, inf |-> 0, v |-> 0]
      [] value.kind = "infinity" -> [nan |-> FALSE, inf |-> 1, v |-> 0]
      [] value.kind = "-infinity" -> [nan |-> FALSE, inf |-> -1, v |-> 0]
isFinite(num) == ~num.nan /\ num.inf = 0

\* clampScore without the upper limit
clampScore_noUpper(value) ==
    LET num == ToNumber(value)
    IN  IF ~isFinite(num) THEN 0 ELSE IF num.v < 0 THEN 0 ELSE num.v

clampScore(value) ==
    LET num == ToNumber(value)
    IN  IF ~isFinite(num) THEN 0
        ELSE IF num.v < 0 THEN 0
        ELSE IF num.v > 100 * 10 THEN 100 * 10
        ELSE num.v

\* Math.round of a non-negative number of tenths, as a whole number
MathRound(tenths) == (tenths + 5) \div 10

TxtDashes == <<"-","-">>
TxtTriggerUpdate == <<"T","r","i","g","g","e","r"," ","r","i","s","k"," ","u","p","d","a","t","e">>
TxtFreshSoon == <<"F","r","e","s","h"," ","s","o","o","n">>
TxtLeaderboardUnavailable == <<"L","e","a","d","e","r","b","o","a","r","d"," ","d","a","t","a"," ","i","s"," ","t","e","m","p","o","r","a","r","i","l","y"," ","u","n","a","v","a","i","l","a","b","l","e",".">>

RECURSIVE TopScore(_)
\* items.reduce(max of clampScore(item.score), 0)
TopScore(list) ==
    IF list = <<>> THEN 0
    ELSE LET max == TopScore(SubSeq(list, 1, Len(list) - 1))
             score == clampScore(list[Len(list)].score)
         IN  IF score > max THEN score ELSE max

\* setStats: the count and top-score statistics
setStats(h, list) ==
    [h EXCEPT !.statCount = IF Len(list) # 0 THEN ToDigits(Len(list)) ELSE TxtDashes,
              !.statScore = IF TopScore(list) # 0 THEN ToDigits(MathRound(TopScore(list)))
                            ELSE TxtDashes]

clearTimer(h) ==
    IF h.timer THEN [h EXCEPT !.timer = FALSE, !.intervals = @ - 1] ELSE h

\* activateTimer that starts the interval without looking at the item count
activateTimer_always(h) ==
    [clearTimer(h) EXCEPT !.timer = TRUE, !.intervals = @ + 1]

activateTimer(h) ==
    IF Len(h.items) <= 1 THEN clearTimer(h)
    ELSE [clearTimer(h) EXCEPT !.timer = TRUE, !.intervals = @ + 1]

showHighlight(h, index) ==
    IF h.items = <<>> THEN h
    ELSE LET safeIndex == index % Len(h.items)
             item == h.items[safeIndex + 1]
         IN  [h EXCEPT !.index = safeIndex,
                       !.scoreText = ToDigits(MathRound(clampScore(item.score))),
                       !.meterWidth = clampScore(item.score),
                       !.titleText = IF item.name # <<>> THEN item.name ELSE TxtTriggerUpdate,
                       !.summaryText = IF item.summary # <<>> THEN item.summary ELSE TxtFreshSoon,
                       !.linkSlug = item.slug]

\* the archive entry stored last under a lower-cased title
ArchiveMatch(name, entries) ==
    LET hits == {i \in 1..Len(entries) :
                    ~entries[i].isNull /\ entries[i].title # <<>>
                    /\ toLowerCase(entries[i].title) = toLowerCase(name)}
    IN  IF hits = {} THEN <<>> ELSE <<entries[CHOOSE i \in hits : \A j \in hits : j <= i]>>

\* enrichHighlights that returns nothing without an archive catalogue
enrichHighlights_needsArchive(list, archive) ==
    IF ~archive.ok \/ ~archive.hasList THEN <<>>
    ELSE [i \in 1..Len(list) |->
            LET match == ArchiveMatch(list[i].name, archive.list)
            IN  IF match = <<>> THEN list[i]
                ELSE [list[i] EXCEPT
                        !.summary = IF match[1].summary # <<>> THEN match[1].summary ELSE @,
                        !.slug = IF match[1].slug # <<>> THEN match[1].slug ELSE @]]

enrichHighlights(list, archive) ==
    IF ~archive.ok \/ ~archive.hasList THEN list
    ELSE [i \in 1..Len(list) |->
            LET match == ArchiveMatch(list[i].name, archive.list)
            IN  IF match = <<>> THEN list[i]
                ELSE [list[i] EXCEPT
                        !.summary = IF match[1].summary # <<>> THEN match[1].summary ELSE @,
                        !.slug = IF match[1].slug # <<>> THEN match[1].slug ELSE @]]

\* ingestData of the rotator
hero_ingestData(h, payload, archive) ==
    IF ~payload.ok \/ ~payload.hasList THEN h
    ELSE LET top == SubSeq(payload.list, 1,
                           IF Len(payload.list) < HIGHLIGHT_LIMIT THEN Len(payload.list)
                           ELSE HIGHLIGHT_LIMIT)
             enriched == enrichHighlights(top, archive)
         IN  IF \E i \in 1..Len(top) : top[i].isNull
             THEN [h EXCEPT !.threw = TRUE]   \* risk.id of null: TypeError inside map
             ELSE activateTimer(showHighlight(setStats([h EXCEPT !.items = enriched,
                                                                !.ingests = @ + 1], enriched), 0))

Risk(name, score, summary, slug) ==
    [isNull |-> FALSE, name |-> name, score |-> score, summary |-> summary, slug |-> slug]
NullRisk == [isNull |-> TRUE, name |-> <<>>, score |-> ScoreMissing, summary |-> <<>>, slug |-> <<>>]
RiskPorts == Risk(TxtPorts, ScoreNumber(625), <<>>, <<>>)
RiskRates == Risk(TxtRates, ScoreNumber(-50), TxtRates, <<"r">>)
RiskShipping == Risk(TxtSHIPPING, ScoreNumber(1400), <<>>, <<>>)
RiskNoScore == Risk(<<>>, ScoreMissing, <<>>, <<>>)
RiskHuge == Risk(TxtUsCre, ScoreInfinity, <<>>, <<>>)
RiskTiny == Risk(TxtUsCre, ScoreNegInfinity, <<>>, <<>>)
RiskFaint == Risk(TxtRates, ScoreNumber(4), <<>>, <<>>)
RiskText == Risk(TxtPorts, ScoreString(1400), <<>>, <<>>)
RiskEdge == Risk(TxtPorts, ScoreNumber(1005), <<>>, <<>>)

Leaderboards ==
    { <<>>, <<RiskPorts>>, <<RiskRates, RiskShipping>>, <<RiskNoScore, RiskHuge, RiskFaint>>,
      <<RiskTiny, RiskRates>>,
      <<RiskTiny, RiskText, RiskEdge, RiskNoScore>>, <<RiskFaint, NullRisk>>,
      <<RiskRates, RiskPorts, RiskFaint, RiskNoScore, RiskTiny, RiskShipping>> }
LeaderboardPayloads == {Failed, NoList} \cup {WithList(list) : list \in Leaderboards}

ArchiveEntry(title, summary, slug) == [isNull |-> FALSE, title |-> title, summary |-> summary, slug |-> slug]
NullEntry == [isNull |-> TRUE, title |-> <<>>, summary |-> <<>>, slug |-> <<>>]
HeroArchivePayloads ==
    { Failed, NoList,
      WithList(<<ArchiveEntry(<<"p","o","r","t","s">>, TxtShippingSqueeze, <<"p">>), NullEntry,
                 ArchiveEntry(<<"R","A","T","E","S">>, <<>>, <<>>)>>) }

HeroInit ==
    \E hidden \in BOOLEAN :
        hero = [pc |-> "loading", hidden |-> hidden, leaderboard |-> <<>>, archive |-> <<>>,
                items |-> <<>>, index |-> 0, timer |-> FALSE, intervals |-> 0, ingests |-> 0,
                threw |-> FALSE, scoreText |-> <<>>, meterWidth |-> 0, titleText |-> <<>>,
                summaryText |-> <<>>, linkSlug |-> <<>>, statCount |-> <<>>, statScore |-> <<>>]

\* fetchJson('data/leaderboard.json') settles (a failure is caught and becomes null)
LeaderboardSettles(payload) ==
    /\ hero.pc = "loading" /\ hero.leaderboard = <<>>
    /\ hero' = [hero EXCEPT !.leaderboard = <<payload>>]
    /\ UNCHANGED <<archiveVars, post, fn, feed, tagPage>>

\* fetchJson('data/briefings_archive.json') settles
HeroArchiveSettles(payload) ==
    /\ hero.pc = "loading" /\ hero.archive = <<>>
    /\ hero' = [hero EXCEPT !.archive = <<payload>>]
    /\ UNCHANGED <<archiveVars, post, fn, feed, tagPage>>

\* the then-handler of Promise.all
HeroPromiseAllThen ==
    /\ hero.pc = "loading" /\ hero.leaderboard # <<>> /\ hero.archive # <<>>
    /\ hero' = IF ~hero.leaderboard[1].ok
               THEN [hero EXCEPT !.pc = "done", !.summaryText = TxtLeaderboardUnavailable]
               ELSE hero_ingestData([hero EXCEPT !.pc = "done"], hero.leaderboard[1], hero.archive[1])
    /\ UNCHANGED <<archiveVars, post, fn, feed, tagPage>>

\* the page becomes hidden or visible; handleVisibilityChange runs
handleVisibilityChange ==
    /\ hero' = IF ~hero.hidden THEN clearTimer([hero EXCEPT !.hidden = TRUE])
               ELSE activateTimer([hero EXCEPT !.hidden = FALSE])
    /\ UNCHANGED <<archiveVars, post, fn, feed, tagPage>>

\* click on dot idx (a hidden page receives no pointer input)
DotClick(idx) ==
    /\ ~hero.hidden /\ idx < Len(hero.items)
    /\ hero' = activateTimer(showHighlight(hero, idx))
    /\ UNCHANGED <<archiveVars, post, fn, feed, tagPage>>

\* the interval callback stepping to the previous item instead of the next
RotateTimerFires_backwards ==
    /\ hero.intervals > 0
    /\ hero' = showHighlight(hero, (hero.index + Len(hero.items) - 1) % Len(hero.items))
    /\ UNCHANGED <<archiveVars, post, fn, feed, tagPage>>

\* a live interval fires
RotateTimerFires ==
    /\ hero.intervals > 0
    /\ hero' = showHighlight(hero, (hero.index + 1) % Len(hero.items))
    /\ UNCHANGED <<archiveVars, post, fn, feed, tagPage>>

HeroNext ==
    \/ \E payload \in LeaderboardPayloads : LeaderboardSettles(payload)
    \/ \E payload \in HeroArchivePayloads : HeroArchiveSettles(payload)
    \/ HeroPromiseAllThen
    \/ handleVisibilityChange
    \/ \E idx \in 0..(HIGHLIGHT_LIMIT - 1) : DotClick(idx)
    \/ RotateTimerFires

InitHero == ArchiveIdle /\ PostIdle /\ FnIdle /\ HeroInit /\ FeedIdle /\ TagPageIdle
SpecHero == InitHero /\ [][HeroNext]_vars

-----------------------------------------------------------------------------
(* Properties of the highlight rotator *)

HeroLoaded == hero # <<>> /\ hero.items # <<>>
ShownScore == hero.items[hero.index + 1].score
\* the clamp of the claim on a number of tenths
RangeClamp(tenths) == IF tenths < 0 THEN 0 ELSE IF tenths > 1000 THEN 1000 ELSE tenths
\* the clamp of the claim on a raw score; Infinity is a value above 100
ClaimedClamp(value) ==
    CASE value.kind = "infinity" -> 1000
      [] value.kind = "-infinity" -> 0
      [] OTHER -> RangeClamp(value.v)
\* the clamp with every non-numeric or non-finite score counted as 0
FiniteClamp(value) ==
    IF value.kind \in {"number", "string"} THEN RangeClamp(value.v) ELSE 0
Largest(S) == IF S = {} THEN 0 ELSE CHOOSE x \in S : \A y \in S : y <= x
ScoreLabel(tenths) == IF tenths = 0 THEN TxtDashes ELSE ToDigits((tenths + 5) \div 10)

\* C11 as stated: the displayed score, the meter width and the top-score
\* aggregate use the score clamped to [0,100]: below 0 becomes 0, above 100
\* becomes 100, inside the range unchanged (scores that are no number at all are
\* left out of the statement).
C11_ScoresClampedToRange ==
    HeroLoaded =>
        /\ ShownScore.kind # "missing" =>
              /\ hero.meterWidth = ClaimedClamp(ShownScore)
              /\ hero.scoreText = ToDigits((ClaimedClamp(ShownScore) + 5) \div 10)
        /\ (\A i \in 1..Len(hero.items) : hero.items[i].score.kind # "missing") =>
              hero.statScore = ScoreLabel(Largest({ClaimedClamp(hero.items[i].score) :
                                                      i \in 1..Len(hero.items)}))

\* C11 amended: finite scores are clamped to [0,100] (below 0 becomes 0, above
\* 100 becomes 100, inside unchanged); a score that is missing, not numeric or
\* not finite (Infinity included) counts as 0; the displayed score, the meter
\* width and the top-score aggregate all use that value.
C11_FiniteScoresClampedToRange ==
    HeroLoaded =>
        /\ hero.meterWidth = FiniteClamp(ShownScore)
        /\ hero.scoreText = ToDigits((FiniteClamp(ShownScore) + 5) \div 10)
        /\ hero.statScore = ScoreLabel(Largest({FiniteClamp(hero.items[i].score) :
                                                   i \in 1..Len(hero.items)}))
\* scores -5 and 140: the second item shows 100, full meter, top score 100
C11_Witness ==
    /\ HeroLoaded
    /\ hero.items = <<RiskRates, RiskShipping>> /\ hero.index = 1
    /\ hero.meterWidth = 1000 /\ hero.scoreText = <<"1","0","0">>
    /\ hero.statScore = <<"1","0","0">>

\* C12: while the page is not visible the rotation timer is not running.
C12_NoTimerWhileHidden == (hero # <<>> /\ hero.hidden) => hero.intervals = 0

-----------------------------------------------------------------------------
(* Data-path resolvers *)

\* What a page offers for resolving a URL: location.href and the src of the
\* executing script are absent, a valid base, or a value that new URL(path,
\* base) rejects (about:blank, a data: URL)
BaseKinds == {"absent", "valid", "opaque"}
Envs == [location : BaseKinds, script : BaseKinds]
\* new URL(path, base) throws unless the base is a valid hierarchical URL
NewURLThrows(base) == base # "valid"

\* outcome of a resolver call: the value returned (the base it was resolved
\* against, the path, whether the v= cache-bust parameter was set) or a throw
Returned(via, path, v) == [threw |-> FALSE, via |-> via, path |-> path, v |-> v]
Thrown == [threw |-> TRUE, via |-> "none", path |-> "", v |-> FALSE]

PathArchive == "../data/briefings_archive.json"
PathEvents == "../data/events.json"
PathArchiveFromScript == "../../data/briefings_archive.json"
PathLatest == "data/latest_briefings.json"
PathLeaderboard == "data/leaderboard.json"

\* tag archive and post page: script first (the order the claim does not state)
resolveDataPath_scriptFirst(relativePath, env) ==
    IF relativePath = "" THEN Returned("relative", relativePath, FALSE)
    ELSE IF env.script # "absent" /\ ~NewURLThrows(env.script)
         THEN Returned("script", relativePath, FALSE)
    ELSE IF env.location # "absent" /\ ~NewURLThrows(env.location)
         THEN Returned("location", relativePath, FALSE)
    ELSE Returned("relative", relativePath, FALSE)
\* tag archive and post page: location, then script, then the input unchanged
resolveDataPath(relativePath, env) ==
    IF relativePath = "" THEN Returned("relative", relativePath, FALSE)
    ELSE IF env.location # "absent" /\ ~NewURLThrows(env.location)
         THEN Returned("location", relativePath, FALSE)
    ELSE IF env.script # "absent" /\ ~NewURLThrows(env.script)
         THEN Returned("script", relativePath, FALSE)
    ELSE Returned("relative", relativePath, FALSE)

\* archive page: script src, then location.href, then the relative path
resolveArchiveUrl(env) ==
    IF env.script # "absent" /\ ~NewURLThrows(env.script)
    THEN Returned("script", PathArchiveFromScript, TRUE)
    ELSE IF env.location # "absent" /\ ~NewURLThrows(env.location)
         THEN Returned("location", PathArchive, TRUE)
    ELSE Returned("relative", PathArchive, TRUE)

\* latest feed: the base is the script's directory two levels up, else
\* origin + directory of the location (a string, built without new URL), else
\* null when window.location cannot be read
ensurePostsBase(env) ==
    IF env.script # "absent" /\ ~NewURLThrows(env.script) THEN "script"
    ELSE IF env.location # "absent" THEN "location"
    ELSE "null"
\* new URL(target, base) for a base ensurePostsBase returned
PostsBaseThrows(base, env) == base = "location" /\ NewURLThrows(env.location)
latest_resolveDataUrl(env) ==
    LET base == ensurePostsBase(env)
    IN  IF base # "null" /\ ~PostsBaseThrows(base, env) THEN Returned(base, PathLatest, TRUE)
        ELSE Returned("relative", PathLatest, TRUE)

\* highlight rotator: location.href only, then path + '?v='
hero_resolveDataUrl(path, env) ==
    IF env.location # "absent" /\ ~NewURLThrows(env.location)
    THEN Returned("location", path, TRUE)
    ELSE Returned("relative", path, TRUE)

ResolverPaths == {"", PathArchive, PathEvents}
HeroPaths == {PathLeaderboard, PathArchive}
ResolveInit ==
    \E env \in Envs, path \in ResolverPaths \cup HeroPaths \cup {PathLatest} :
        fn = [pc |-> "ready", resolver |-> "none", env |-> env, path |-> path, out |-> Thrown]
CallResolveDataPath ==
    /\ fn # <<>> /\ fn.pc = "ready" /\ fn.path \in ResolverPaths
    /\ fn' = [fn EXCEPT !.pc = "done", !.resolver = "resolveDataPath",
                        !.out = resolveDataPath(fn.path, fn.env)]
    /\ UNCHANGED <<archiveVars, post, widgetVars>>
CallResolveArchiveUrl ==
    /\ fn # <<>> /\ fn.pc = "ready" /\ fn.path = PathArchive
    /\ fn' = [fn EXCEPT !.pc = "done", !.resolver = "resolveArchiveUrl",
                        !.out = resolveArchiveUrl(fn.env)]
    /\ UNCHANGED <<archiveVars, post, widgetVars>>
CallResolveDataUrl_latest ==
    /\ fn # <<>> /\ fn.pc = "ready" /\ fn.path = PathLatest
    /\ fn' = [fn EXCEPT !.pc = "done", !.resolver = "latest_resolveDataUrl",
                        !.out = latest_resolveDataUrl(fn.env)]
    /\ UNCHANGED <<archiveVars, post, widgetVars>>
CallResolveDataUrl_hero ==
    /\ fn # <<>> /\ fn.pc = "ready" /\ fn.path \in HeroPaths
    /\ fn' = [fn EXCEPT !.pc = "done", !.resolver = "hero_resolveDataUrl",
                        !.out = hero_resolveDataUrl(fn.path, fn.env)]
    /\ UNCHANGED <<archiveVars, post, widgetVars>>
ResolveNext ==
    \/ CallResolveDataPath
    \/ CallResolveArchiveUrl
    \/ CallResolveDataUrl_latest
    \/ CallResolveDataUrl_hero
InitResolve == ArchiveIdle /\ PostIdle /\ ResolveInit /\ WidgetsIdle
SpecResolve == InitResolve /\ [][ResolveNext]_vars

(* Properties of the resolvers *)

ResolverDone == fn # <<>> /\ fn.pc = "done"
Usable(base) == base = "valid"
\* the first usable base in the given order of attempts, else the relative path
FirstUsable(order, env) ==
    IF \E i \in 1..Len(order) : Usable(env[order[i]])
    THEN order[CHOOSE i \in 1..Len(order) :
                   Usable(env[order[i]]) /\ \A j \in 1..(i - 1) : ~Usable(env[order[j]])]
    ELSE "relative"
AttemptOrder(resolver) ==
    CASE resolver = "resolveDataPath" -> <<"location", "script">>
      [] resolver \in {"resolveArchiveUrl", "latest_resolveDataUrl"} -> <<"script", "location">>
      [] resolver = "hero_resolveDataUrl" -> <<"location">>

-----------------------------------------------------------------------------
(* Latest briefings widget: latest.js, and the latest-cards closure of
   hero-highlight.js *)

DEFAULT_LIMIT == 6
\* parseInt(limitAttr || '6', 10) || 6
FeedLimit(limitAttr) ==
    LET n == parseInt(IF limitAttr # <<>> THEN limitAttr ELSE <<"6">>)
    IN  IF n.nan \/ n.v = 0 THEN DEFAULT_LIMIT ELSE n.v
\* Array.prototype.slice(0, end): a negative end counts back from the length
slice0(list, end) ==
    LET len == Len(list)
        to == IF end < 0 THEN (IF len + end < 0 THEN 0 ELSE len + end)
              ELSE IF end > len THEN len ELSE end
    IN  SubSeq(list, 1, to)

TxtPostsDir == <<"p","o","s","t","s","/">>
TxtSiteRoot == <<"h","t","t","p","s",":","/","/","s","i","t","e","/">>
TxtBriefing == <<"B","r","i","e","f","i","n","g">>
TxtSignal == <<" ","s","i","g","n","a","l">>
TxtTriggerSignal == <<"T","r","i","g","g","e","r"," ","s","i","g","n","a","l">>
TxtDay == <<"d","a","y"," ">>

\* URL serialisation percent-encodes the characters of the path encode set
urlPathChar(c) ==
    CASE c = "\"" -> <<"%","2","2">>
      [] c = "<" -> <<"%","3","C">>
      [] c = ">" -> <<"%","3","E">>
      [] c = " " -> <<"%","2","0">>
      [] OTHER -> <<c>>
\* new URL(target, base).toString() for a usable base
urlToString(target) == TxtSiteRoot \o Flatten([i \in 1..Len(target) |-> urlPathChar(target[i])])

\* date.toLocaleDateString(...): a rendering made of letters, digits, spaces
toLocaleDateString(ms) == TxtDay \o ToDigits(ms \div MS_IN_DAY)

\* latest.js formatDate: '' without a value, the escaped value when it does
\* not parse, else the locale rendering
latest_formatDate(as_of) ==
    IF as_of.text = <<>> THEN <<>>
    ELSE IF parseDate(as_of).nan THEN escapeHtml(as_of.text)
    ELSE toLocaleDateString(parseDate(as_of).v)

\* latest.js renderTags: as on the archive page, but three labels at most
RECURSIVE latest_UniqueLabels(_, _)
latest_UniqueLabels(unique, tags) ==
    IF tags = <<>> THEN unique
    ELSE LET label == TagLabel(Head(tags))
         IN  IF label = <<>> \/ \E i \in 1..Len(unique) : toLowerCase(unique[i]) = toLowerCase(label)
             THEN latest_UniqueLabels(unique, Tail(tags))
             ELSE IF Len(unique) + 1 >= 3 THEN Append(unique, label)
             ELSE latest_UniqueLabels(Append(unique, label), Tail(tags))
latest_renderTags(clusterLabel, tags) ==
    LET unique == latest_UniqueLabels(IF clusterLabel # <<>> THEN <<clusterLabel>> ELSE <<>>, tags)
    IN  [i \in 1..Len(unique) |-> escapeHtml(unique[i])]

\* 'posts/' + slug + '.html', made absolute when the posts base is usable
resolveHref(slug, env) ==
    LET target == TxtPostsDir \o slug \o TxtHtml
        base == ensurePostsBase(env)
    IN  IF slug = <<>> THEN target
        ELSE IF base # "null" /\ ~PostsBaseThrows(base, env) THEN urlToString(target)
        ELSE target
\* hero-highlight.js builds the href inline and has no empty-slug shortcut
home_resolveHref(slug, env) ==
    LET target == TxtPostsDir \o slug \o TxtHtml
        base == ensurePostsBase(env)
    IN  IF base # "null" /\ ~PostsBaseThrows(base, env) THEN urlToString(target) ELSE target

\* A card is the texts its renderer puts into the markup, field by field
\* (absent parts are empty)
renderCard(item, env) ==
    LET slug == item.slug
        href == resolveHref(slug, env)
        title == IF item.title # <<>> THEN item.title
                 ELSE IF slug # <<>> THEN slug ELSE TxtBriefing
        clusterLabel == formatClusterLabel(item.cluster)
        dateLabel == latest_formatDate(item.as_of)
        iconLabel == IF clusterLabel # <<>> THEN clusterLabel \o TxtSignal ELSE TxtTriggerSignal
    IN  [theme |-> resolveVisual(item.cluster),
         href |-> escapeHtml(href),
         iconLabel |-> escapeHtml(iconLabel),
         date |-> escapeHtml(dateLabel),
         title |-> escapeHtml(title),
         summary |-> escapeHtml(item.summary),
         tags |-> latest_renderTags(clusterLabel, item.tags)]
\* the latest-cards closure of hero-highlight.js concatenates the fields as
\* they come: date, href, title and one tag holding the cluster
home_renderCard(it, env) ==
    [theme |-> "none",
     href |-> home_resolveHref(it.slug, env),
     iconLabel |-> <<>>,
     date |-> it.as_of.text,
     title |-> it.title,
     summary |-> <<>>,
     tags |-> <<it.cluster>>]

FeedDate(day) == [kind |-> "iso", ms |-> day * MS_IN_DAY, text |-> <<"d">> \o ToDigits(day)]
FeedBadDate(text) == [kind |-> "bad", ms |-> 0, text |-> text]
FeedNoDate == [kind |-> "missing", ms |-> 0, text |-> <<>>]
TxtBoldQ == <<"<","b",">","Q","&","A">>
TxtQuoted == <<"\"","x","'">>
TxtSoon == <<"s","o","o","n"," ","<","3">>
FeedPlain ==
    [slug |-> <<"p","1">>, title |-> TxtShippingSqueeze, summary |-> TxtRates, cluster |-> TxtSHIPPING,
     as_of |-> FeedDate(3), tags |-> <<[label |-> TxtPorts, name |-> <<>>]>>]
FeedMarkup ==
    [slug |-> TxtQuoted, title |-> TxtBoldQ, summary |-> TxtBoldQ, cluster |-> <<"a","&","b">>,
     as_of |-> FeedBadDate(TxtSoon), tags |-> <<[label |-> TxtQuoted, name |-> <<>>],
                                                 [label |-> <<>>, name |-> TxtBoldQ],
                                                 [label |-> TxtPorts, name |-> <<>>]>>]
FeedBare ==
    [slug |-> <<>>, title |-> <<>>, summary |-> <<>>, cluster |-> <<>>, as_of |-> FeedNoDate, tags |-> <<>>]
FeedNumbered(i) == [FeedPlain EXCEPT !.slug = <<"p">> \o ToDigits(i), !.as_of = FeedDate(i)]
FeedLists ==
    { <<>>, <<FeedPlain>>, <<FeedMarkup, FeedPlain>>, <<FeedBare, FeedMarkup>>,
      <<FeedPlain, FeedBare, FeedNumbered(2)>>, [i \in 1..(DEFAULT_LIMIT + 1) |-> FeedNumbered(i)] }
FeedPayloads == {Failed, NoList} \cup {WithList(list) : list \in FeedLists}
LimitAttrs == {<<>>, <<"2">>, <<"0">>, <<"-","1">>}
FeedVariants == {"latest", "home"}

FeedLoading == "Loading latest briefings"
FeedEmpty == "No recent briefings yet."
FeedUnavailable == "Latest briefings unavailable right now."

\* after the script ran: the base is resolved, the request is out and the
\* container shows the loading message
FeedInit ==
    \E variant \in FeedVariants, env \in Envs, limitAttr \in LimitAttrs :
        feed = [variant |-> variant, pc |-> "loading", env |-> env, limit |-> FeedLimit(limitAttr),
                url |-> latest_resolveDataUrl(env), status |-> FeedLoading, cards |-> <<>>]

\* network error, non-success HTTP status or a body that is not JSON
FeedFetchFails ==
    /\ feed # <<>> /\ feed.pc = "loading"
    /\ feed' = [feed EXCEPT !.pc = "done", !.status = FeedUnavailable]
    /\ UNCHANGED <<archiveVars, post, fn, hero, tagPage>>
\* the body parsed: cards for the first `limit` items, or the empty message
FeedDataArrives(data) ==
    /\ feed # <<>> /\ feed.pc = "loading"
    /\ data.ok
    /\ LET shown == IF data.hasList THEN slice0(data.list, feed.limit) ELSE <<>>
       IN  IF shown = <<>>
           THEN feed' = [feed EXCEPT !.pc = "done", !.status = FeedEmpty]
           ELSE feed' = [feed EXCEPT !.pc = "done", !.status = "",
                            !.cards = [i \in 1..Len(shown) |->
                                          IF feed.variant = "latest"
                                          THEN renderCard(shown[i], feed.env)
                                          ELSE home_renderCard(shown[i], feed.env)]]
    /\ UNCHANGED <<archiveVars, post, fn, hero, tagPage>>
FeedNext ==
    \/ FeedFetchFails
    \/ \E data \in FeedPayloads : FeedDataArrives(data)
InitFeed == ArchiveIdle /\ PostIdle /\ FnIdle /\ HeroIdle /\ FeedInit /\ TagPageIdle
SpecFeed == InitFeed /\ [][FeedNext]_vars

(* Properties of the card renderers *)

\* a text that cannot open or close markup: none of < > " ' and every & begins
\* one of the five entities escapeHtml writes
Entities == {escapeChar(c) : c \in EscapedChars}
StartsEntity(s, i) ==
    \E e \in Entities : i + Len(e) - 1 <= Len(s) /\ SubSeq(s, i, i + Len(e) - 1) = e
MarkupSafe(s) ==
    \A i \in 1..Len(s) : /\ s[i] \notin {"<", ">", "\"", "'"}
                         /\ s[i] = "&" => StartsEntity(s, i)
CardSafe(card) ==
    /\ MarkupSafe(card.href) /\ MarkupSafe(card.iconLabel) /\ MarkupSafe(card.date)
    /\ MarkupSafe(card.title) /\ MarkupSafe(card.summary)
    /\ \A i \in 1..Len(card.tags) : MarkupSafe(card.tags[i])

\* C14: every data-sourced field a card renderer inserts into markup has been
\* through escapeHtml, in every widget that renders cards: here the two
\* latest-feed widgets.
C14_FeedCardsEscaped ==
    feed # <<>> => \A i \in 1..Len(feed.cards) : CardSafe(feed.cards[i])

\* C16: a successfully fetched payload of the wrong shape (no risks array)
\* leaves the widget with the same user-visible status message as a transport
\* failure does; here for the highlight rotator, whose message after a failed
\* leaderboard fetch is TxtLeaderboardUnavailable.
C16_WrongShapeShownAsFailure ==
    (hero # <<>> /\ hero.pc = "done" /\ hero.leaderboard = <<NoList>>) =>
        hero.summaryText = TxtLeaderboardUnavailable

-----------------------------------------------------------------------------
(* Tag-archive page *)

\* characters in ascending order of their UTF-16 code unit
CodeUnitOrder == <<" ", "-">> \o DigitSeq \o UpperChars \o <<"_">> \o LowerChars
\* primary order of the default collation (on case-folded text), and the order
\* that breaks a case-only tie: lower case first
CollationOrder == <<" ", "_", "-">> \o DigitSeq \o LowerChars
CaseOrder == <<" ", "_", "-">> \o DigitSeq \o LowerChars \o UpperChars
Rank(c, order) == CHOOSE i \in 1..Len(order) : order[i] = c
\* -1, 0 or 1: lexicographic comparison of two texts by the rank of their characters
RECURSIVE SeqCompare(_, _, _)
SeqCompare(a, b, order) ==
    IF a = <<>> THEN (IF b = <<>> THEN 0 ELSE 0 - 1)
    ELSE IF b = <<>> THEN 1
    ELSE IF Head(a) = Head(b) THEN SeqCompare(Tail(a), Tail(b), order)
    ELSE IF Rank(Head(a), order) < Rank(Head(b), order) THEN 0 - 1 ELSE 1
\* a < b on strings
StringLess(a, b) == SeqCompare(a, b, CodeUnitOrder) = 0 - 1
\* a.localeCompare(b)
localeCompare(a, b) ==
    LET primary == SeqCompare(toLowerCase(a), toLowerCase(b), CollationOrder)
    IN  IF primary # 0 THEN primary ELSE SeqCompare(a, b, CaseOrder)

\* the comparator with the slug tie-break ascending
compareMatches_slugAscending(a, b) ==
    IF a.as_of = b.as_of THEN localeCompare(a.slug, b.slug)
    ELSE IF StringLess(a.as_of, b.as_of) THEN 1 ELSE 0 - 1
\* the comparator handed to matches.sort
compareMatches(a, b) ==
    IF a.as_of = b.as_of THEN localeCompare(b.slug, a.slug)
    ELSE IF StringLess(a.as_of, b.as_of) THEN 1 ELSE 0 - 1
\* Array.prototype.sort is stable: an element goes before the first one the
\* comparator puts after it
InsertMatch(sorted, x) ==
    LET later == {i \in 1..Len(sorted) : compareMatches(sorted[i], x) > 0}
        at == IF later = {} THEN Len(sorted) + 1 ELSE CHOOSE i \in later : \A j \in later : i <= j
    IN  SubSeq(sorted, 1, at - 1) \o <<x>> \o SubSeq(sorted, at, Len(sorted))
RECURSIVE sortMatches(_)
sortMatches(list) ==
    IF list = <<>> THEN <<>>
    ELSE InsertMatch(sortMatches(SubSeq(list, 1, Len(list) - 1)), list[Len(list)])

\* buildEventMap: uid -> event, a later event replacing an earlier one
RECURSIVE buildEventMap(_)
buildEventMap(events) ==
    IF events = <<>> THEN <<>>
    ELSE LET front == buildEventMap(SubSeq(events, 1, Len(events) - 1))
             event == events[Len(events)]
         IN  IF ~event.isNull /\ event.uid # <<>> THEN (event.uid :> event) @@ front ELSE front

\* slug.replace(/-/g, ' ') with word starts upper-cased
labelFromSlug(slug) == UpperWordStarts(ReplaceEach(slug, {"-"}, " "))
\* params.get('tag'), lower-cased and trimmed ('' when absent)
tagSlugOf(param) == trim(toLowerCase(param))

\* formatDate of the tag archive: the locale rendering of a calendar date
\* (two digits in this model), '' for anything else
IsCalendarDate(text) == Len(text) = 2 /\ \A i \in 1..2 : IsDigit(text[i])
tagArchive_formatDate(value) ==
    IF IsCalendarDate(value) THEN toLocaleDateString(DigitsValue(value) * MS_IN_DAY) ELSE <<>>
TxtPostsUp == <<".",".","/","p","o","s","t","s","/">>
tagArchive_createCard(item) ==
    LET href == IF item.slug # <<>> THEN TxtPostsUp \o item.slug \o TxtHtml ELSE <<"#">>
        title == IF item.title # <<>> THEN item.title
                 ELSE IF item.slug # <<>> THEN item.slug ELSE TxtUntitled
    IN  [slug |-> item.slug,
         href |-> escapeHtml(href),
         title |-> escapeHtml(title),
         date |-> escapeHtml(tagArchive_formatDate(item.as_of)),
         cluster |-> escapeHtml(item.cluster)]

\* the event of an item: eventMap[String(item.event_uid)], or null
eventOf(item, eventMap) ==
    IF item.event_uid # <<>> /\ item.event_uid \in DOMAIN eventMap
    THEN <<eventMap[item.event_uid]>> ELSE <<>>
\* the tag of the item whose slug is identical to tagSlug (none: <<>>)
matchingTags(item, eventMap, tagSlug) ==
    SelectSeq(collectTagsFromItem_tagArchive(<<item>>, eventOf(item, eventMap)),
              LAMBDA tag : tag.slug = tagSlug)
\* the forEach over archiveItems: matches in archive order
RECURSIVE collectMatches(_, _, _)
collectMatches(archiveItems, eventMap, tagSlug) ==
    IF archiveItems = <<>> THEN <<>>
    ELSE LET item == Head(archiveItems)
             rest == collectMatches(Tail(archiveItems), eventMap, tagSlug)
         IN  IF item.isNull \/ item.slug = <<>> THEN rest
             ELSE IF matchingTags(item, eventMap, tagSlug) # <<>> THEN <<item>> \o rest
             ELSE rest

TagStatus(msg, label, n) == [msg |-> msg, label |-> label, n |-> n]
TagStatusAppend == TagStatus("Append ?tag=your-topic to the URL to view matching briefings.", <<>>, 0)
TagStatusNoMatch(label) == TagStatus("No briefings match the label tag yet.", label, 0)
TagStatusShowing(n) == TagStatus("Showing n results.", <<>>, n)
TagStatusUnable == TagStatus("Unable to load tagged briefings right now. Please try again later.", <<>>, 0)
TagStatusNone == TagStatus("", <<>>, 0)

TagItem(slug, as_of, event_uid, cluster, tags) ==
    [isNull |-> FALSE, slug |-> slug, title |-> <<>>, event_uid |-> event_uid,
     cluster |-> cluster, tags |-> tags, as_of |-> as_of]
TagItemA == TagItem(<<"a","-","1">>, <<"0","3">>, <<>>, <<"A","I">>, <<>>)
TagItemB == TagItem(<<"a","1">>, <<"0","3">>, <<>>, <<"a","i">>, <<>>)
TagItemC == TagItem(<<"c">>, <<"1","0">>, <<"2">>, <<>>, <<>>)
TagItemD == TagItem(<<"d">>, <<>>, <<>>, <<>>, <<[slug |-> <<"a","i">>, label |-> <<"A","i">>]>>)
TagItemE == TagItem(<<"e">>, <<"0","9">>, <<>>, <<>>, <<[slug |-> <<"A","I">>, label |-> <<"A","I">>]>>)
TagItemF == TagItem(<<"f">>, <<"s","o","o","n">>, <<"1">>, <<"u","s","_","c","r","e">>, <<>>)
TagItemUpper == TagItem(<<"A","1">>, <<"0","3">>, <<>>, <<"A","I">>, <<>>)
TagNullItem == [TagItem(<<>>, <<>>, <<>>, <<>>, <<>>) EXCEPT !.isNull = TRUE]
TagItemNoSlug == TagItem(<<>>, <<"0","3">>, <<>>, <<"A","I">>, <<>>)
\* slugs are unique within a catalogue
TagCatalogues ==
    { <<>>, <<TagItemA, TagItemB, TagItemC>>, <<TagItemC, TagItemB, TagItemA>>,
      <<TagItemB, TagItemD, TagItemUpper, TagItemA>>, <<TagItemE>>, <<TagItemD, TagItemE, TagItemF, TagItemC>>,
      <<TagNullItem, TagItemF, TagItemNoSlug, TagItemA>> }
TagArchivePayloads == {Failed, NoList} \cup {WithList(c) : c \in TagCatalogues}
TagEventsPayloads ==
    {Failed, NoList, WithList(<<NullEvent, EventFooBar, EventFooBarAgain>>),
     WithList(<<EventFooBarAgain, EventBaz>>)}
TagParams == {<<>>, <<"a","i">>, <<"A","I">>, <<" ","A","i"," ">>, <<"u","s","c","r","e">>,
              <<"r","a","t","e","-","s","h","o","c","k">>}

\* after the script ran: without a tag the page asks for one and stops; with
\* one both fetches are out
TagPageInit ==
    \E param \in TagParams :
        tagPage = [pc |-> IF tagSlugOf(param) = <<>> THEN "done" ELSE "loading",
                   param |-> param, tagSlug |-> tagSlugOf(param),
                   archive |-> <<>>, events |-> <<>>,
                   matches |-> <<>>, tagLabel |-> <<>>,
                   status |-> IF tagSlugOf(param) = <<>> THEN TagStatusAppend ELSE TagStatusNone,
                   summaryCount |-> 0, cards |-> <<>>]
\* fetchJson(archive) settles (a failure is caught and becomes null)
TagArchiveSettles(payload) ==
    /\ tagPage # <<>> /\ tagPage.pc = "loading" /\ tagPage.archive = <<>>
    /\ tagPage' = [tagPage EXCEPT !.archive = <<payload>>]
    /\ UNCHANGED <<archiveVars, post, fn, hero, feed>>
\* fetchJson(events) settles
TagEventsSettle(payload) ==
    /\ tagPage # <<>> /\ tagPage.pc = "loading" /\ tagPage.events = <<>>
    /\ tagPage' = [tagPage EXCEPT !.events = <<payload>>]
    /\ UNCHANGED <<archiveVars, post, fn, hero, feed>>
\* the then-handler of Promise.all: match, sort, summary, status, cards
TagPromiseAllThen ==
    /\ tagPage # <<>> /\ tagPage.pc = "loading"
    /\ tagPage.archive # <<>> /\ tagPage.events # <<>>
    /\ LET archiveItems == IF tagPage.archive[1].hasList THEN tagPage.archive[1].list ELSE <<>>
           eventMap == buildEventMap(IF tagPage.events[1].hasList
                                     THEN tagPage.events[1].list ELSE <<>>)
           found == collectMatches(archiveItems, eventMap, tagPage.tagSlug)
           tagLabel == IF found # <<>>
                       THEN matchingTags(found[1], eventMap, tagPage.tagSlug)[1].label
                       ELSE labelFromSlug(tagPage.tagSlug)
           sorted == sortMatches(found)
       IN  IF found = <<>>
           THEN tagPage' = [tagPage EXCEPT !.pc = "done", !.tagLabel = tagLabel,
                               !.status = TagStatusNoMatch(tagLabel)]
           ELSE tagPage' = [tagPage EXCEPT !.pc = "done", !.tagLabel = tagLabel,
                               !.matches = sorted, !.summaryCount = Len(sorted),
                               !.status = TagStatusShowing(Len(sorted)),
                               !.cards = [i \in 1..Len(sorted) |-> tagArchive_createCard(sorted[i])]]
    /\ UNCHANGED <<archiveVars, post, fn, hero, feed>>
TagPageNext ==
    \/ \E payload \in TagArchivePayloads : TagArchiveSettles(payload)
    \/ \E payload \in TagEventsPayloads : TagEventsSettle(payload)
    \/ TagPromiseAllThen
InitTagPage == ArchiveIdle /\ PostIdle /\ FnIdle /\ HeroIdle /\ FeedIdle /\ TagPageInit
SpecTagPage == InitTagPage /\ [][TagPageNext]_vars

(* Properties of the tag-archive page *)

TagPageDone == tagPage # <<>> /\ tagPage.pc = "done" /\ tagPage.archive # <<>>
\* the catalogue the page received, and the event of an item by uid
ReceivedItems == IF tagPage.archive[1].hasList THEN tagPage.archive[1].list ELSE <<>>
ReceivedEvents == IF tagPage.events[1].hasList THEN tagPage.events[1].list ELSE <<>>
ListedSlugs == {tagPage.cards[i].slug : i \in 1..Len(tagPage.cards)}
\* the reconciled tag slugs of an item, explicit ones included
ReconciledSlugs(item) ==
    LET tags == collectTagsFromItem_tagArchive(<<item>>, eventOf(item, buildEventMap(ReceivedEvents)))
    IN  {tags[i].slug : i \in 1..Len(tags)}

\* C17: an item is listed iff one of its reconciled tag slugs equals the
\* lower-cased, trimmed tag parameter when compared without regard to case,
\* slugs from the item's explicit tag list included.
C17_TagMatchedIgnoringCase ==
    TagPageDone =>
        \A i \in 1..Len(ReceivedItems) :
            LET item == ReceivedItems[i]
            IN  (~item.isNull /\ item.slug # <<>>) =>
                    (item.slug \in ListedSlugs <=>
                        \E s \in ReconciledSlugs(item) :
                            toLowerCase(s) = trim(toLowerCase(tagPage.param)))

-----------------------------------------------------------------------------
(* Event indexes as pure functions: buildEventIndex (post page) and
   buildEventMap (tag archive) *)

MaxRegistry == 3   \* longest registry handed to the index builders
RegistryEntries == PostEvents \cup {NullEvent}
IndexInit ==
    \E events \in SeqsUpTo(RegistryEntries, MaxRegistry) :
        fn = [pc |-> "ready", op |-> "none", events |-> events, out |-> <<>>]
CallBuildEventIndex ==
    /\ fn # <<>> /\ fn.pc = "ready"
    /\ fn' = [fn EXCEPT !.pc = "done", !.op = "buildEventIndex", !.out = buildEventIndex(fn.events)]
    /\ UNCHANGED <<archiveVars, post, widgetVars>>
CallBuildEventMap ==
    /\ fn # <<>> /\ fn.pc = "ready"
    /\ fn' = [fn EXCEPT !.pc = "done", !.op = "buildEventMap", !.out = buildEventMap(fn.events)]
    /\ UNCHANGED <<archiveVars, post, widgetVars>>
IndexNext ==
    \/ CallBuildEventIndex
    \/ CallBuildEventMap
InitIndex == ArchiveIdle /\ PostIdle /\ IndexInit /\ WidgetsIdle
SpecIndex == InitIndex /\ [][IndexNext]_vars

(* Properties of the event indexes *)

IndexBuilt == fn # <<>> /\ fn.pc = "done" /\ fn.op = "buildEventIndex"
MapBuilt == fn # <<>> /\ fn.pc = "done" /\ fn.op = "buildEventMap"
\* positions of the registry holding an event with the uid / with a title of the key
UidPositions(events, uid) == {i \in 1..Len(events) : ~events[i].isNull /\ events[i].uid = uid}
TitlePositions(events, key) ==
    {i \in 1..Len(events) : ~events[i].isNull /\ events[i].title # <<>>
                            /\ ClaimTitleKey(events[i].title) = key}
RegistryUids(events) == {events[i].uid : i \in {j \in 1..Len(events) : ~events[j].isNull}} \ {<<>>}
RegistryTitleKeys(events) ==
    {ClaimTitleKey(events[i].title) :
        i \in {j \in 1..Len(events) : ~events[j].isNull /\ events[j].title # <<>>}}
LastAt(events, positions) == events[CHOOSE i \in positions : \A j \in positions : j <= i]
FirstAt(events, positions) == events[CHOOSE i \in positions : \A j \in positions : i <= j]
LastPerUid(index, events) ==
    /\ DOMAIN index = RegistryUids(events)
    /\ \A uid \in DOMAIN index : index[uid] = LastAt(events, UidPositions(events, uid))

\* C18 as stated: the index holds exactly one event per uid, the last of the
\* registry carrying it, and exactly one event per normalized title, the first
\* of the registry carrying it; null entries are skipped.
C18_LastPerUidFirstPerTitle ==
    IndexBuilt =>
        /\ LastPerUid(fn.out.byUid, fn.events)
        /\ DOMAIN fn.out.byTitle = RegistryTitleKeys(fn.events)
        /\ \A key \in DOMAIN fn.out.byTitle :
              fn.out.byTitle[key] = FirstAt(fn.events, TitlePositions(fn.events, key))

\* C18 amended: the same, with one event per NON-EMPTY normalized title: an
\* event whose title normalizes to the empty string is not indexed by title.
\* The tag archive's buildEventMap keeps the last event per uid as well.
C18_LastPerUidFirstPerNonEmptyTitle ==
    /\ IndexBuilt =>
          /\ LastPerUid(fn.out.byUid, fn.events)
          /\ DOMAIN fn.out.byTitle = RegistryTitleKeys(fn.events) \ {<<>>}
          /\ \A key \in DOMAIN fn.out.byTitle :
                fn.out.byTitle[key] = FirstAt(fn.events, TitlePositions(fn.events, key))
    /\ MapBuilt => LastPerUid(fn.out, fn.events)
\* registry [Foo Bar (uid 1), FOO bar (uid 2), Baz (uid 1)]: uid 1 ends at Baz,
\* the last of its uid, and the title key "foo bar" at the first event carrying it
C18_Witness ==
    /\ IndexBuilt
    /\ fn.events = <<EventFooBar, EventFooBarAgain, EventBaz>>
    /\ fn.out.byTitle[<<"f","o","o"," ","b","a","r">>] = EventFooBar
    /\ fn.out.byUid[<<"1">>] = EventBaz

\* a is displayed before b: later as_of first, and for equal as_of the slug
\* that collates later first
DisplayedBefore(a, b) ==
    \/ StringLess(b.as_of, a.as_of)
    \/ a.as_of = b.as_of /\ localeCompare(a.slug, b.slug) = 1
Reordered(list, p) == [i \in 1..Len(list) |-> list[p[i]]]

\* C19: the cards are ordered by as_of descending and, for equal as_of, by
\* slug descending; the comparator is a consistent total order, so every input
\* order of the same matches gives the same rendered order.
C19_CardsByDateThenSlugDescending ==
    (TagPageDone /\ tagPage.cards # <<>>) =>
        LET m == tagPage.matches
        IN  /\ \A i \in 1..(Len(m) - 1) : DisplayedBefore(m[i], m[i + 1])
            /\ \A i, j \in 1..Len(m) :
                  /\ compareMatches(m[i], m[j]) = 0 - compareMatches(m[j], m[i])
                  /\ compareMatches(m[i], m[j]) = 0 <=> i = j
            /\ Len(tagPage.cards) = Len(m)
            /\ \A i \in 1..Len(m) : tagPage.cards[i].slug = m[i].slug
            /\ \A p \in Permutations(1..Len(m)) : sortMatches(Reordered(m, p)) = m
\* catalogue [a-1 (03), a1 (03), c (10)] under tag ai: c first, then the tie
\* with a1 before a-1
C19_Witness ==
    /\ TagPageDone
    /\ ReceivedItems = <<TagItemA, TagItemB, TagItemC>>
    /\ tagPage.matches = <<TagItemC, TagItemB, TagItemA>>
    /\ Len(tagPage.cards) = 3 /\ tagPage.cards[2].slug = <<"a","1">>

-----------------------------------------------------------------------------
(* The timeframe predicate as a pure function: matchesTimeframe *)

MaxAgeDays == 9   \* oldest calendar date handed to the predicate, in days before the clock start
TimeframeDates ==
    {IsoDate(ClockStart \div MS_IN_DAY - age) : age \in {0, 1, 6, 7, 8, MaxAgeDays}}
        \cup {IsoDate(ClockStart \div MS_IN_DAY + 8)}
        \cup {OtherDate(ClockStart - 7 * MS_IN_DAY - ClockStep), OtherDate(ClockStart - 6 * MS_IN_DAY - ClockStep),
              BadDate, NoDate}
TimeframeThresholds ==
    {TxtAll, <<>>, TxtSeven, <<"1">>, <<"0">>, <<"-","7">>, <<"s","o","o","n">>, <<"7","d">>}
TimeframeClocks == {ClockStart, ClockStart + ClockStep, ClockStart + 1}
TimeframeInit ==
    \E as_of \in TimeframeDates, timeframe \in TimeframeThresholds, clock \in TimeframeClocks :
        fn = [pc |-> "ready", item |-> [KindShipping EXCEPT !.as_of = as_of],
              timeframe |-> timeframe, clock |-> clock, out |-> FALSE]
CallMatchesTimeframe ==
    /\ fn # <<>> /\ fn.pc = "ready"
    /\ fn' = [fn EXCEPT !.pc = "done",
                        !.out = matchesTimeframe(fn.item, [DefaultFilters EXCEPT !.timeframe = fn.timeframe],
                                                 fn.clock)]
    /\ UNCHANGED <<archiveVars, post, widgetVars>>
TimeframeNext == CallMatchesTimeframe
InitTimeframe == ArchiveIdle /\ PostIdle /\ TimeframeInit /\ WidgetsIdle
SpecTimeframe == InitTimeframe /\ [][TimeframeNext]_vars

(* Properties of the timeframe predicate *)

TimeframeDone == fn # <<>> /\ fn.pc = "done"
\* the threshold in days, when the text parses to an integer
ThresholdDays == parseInt(fn.timeframe)
DateParses(as_of) == as_of.kind \in {"iso", "other"}
\* the instant of the date, and the UTC midnight of its day
InstantOf(as_of) == as_of.ms
MidnightOf(as_of) == (as_of.ms \div MS_IN_DAY) * MS_IN_DAY

\* C22 as stated: with timeframe "all" or a threshold that does not parse to a
\* positive integer every item passes; with N days active an item without a
\* parsable as_of passes, and one with a parsable as_of passes iff now minus
\* its as_of at UTC midnight is at most N days.
C22_PositiveThresholdOrPass ==
    TimeframeDone =>
        (fn.out <=>
            \/ fn.timeframe = TxtAll
            \/ ThresholdDays.nan \/ ThresholdDays.v <= 0
            \/ ~DateParses(fn.item.as_of)
            \/ fn.clock - MidnightOf(fn.item.as_of) <= ThresholdDays.v * MS_IN_DAY)

\* C22 amended: every item passes with timeframe "all", an empty threshold,
\* or one whose integer prefix is missing or zero; otherwise an item without
\* a parsable as_of passes, and one with a parsable as_of passes iff now minus
\* the parsed instant is at most N days, N being the (possibly negative)
\* integer prefix of the threshold.
C22_TimeframeFailsOpen ==
    TimeframeDone =>
        (fn.out <=>
            \/ fn.timeframe \in {TxtAll, <<>>}
            \/ ThresholdDays.nan \/ ThresholdDays.v = 0
            \/ ~DateParses(fn.item.as_of)
            \/ fn.clock - InstantOf(fn.item.as_of) <= ThresholdDays.v * MS_IN_DAY)
\* threshold 7: an undated item and one dated exactly seven days back pass,
\* one dated eight days back does not
C22_Witness ==
    /\ TimeframeDone /\ fn.timeframe = TxtSeven /\ fn.clock = ClockStart
    /\ \/ fn.item.as_of = NoDate /\ fn.out
       \/ fn.item.as_of = IsoDate(ClockStart \div MS_IN_DAY - 7) /\ fn.out
       \/ fn.item.as_of = IsoDate(ClockStart \div MS_IN_DAY - 8) /\ ~fn.out

-----------------------------------------------------------------------------
(* Further properties of the post page *)

\* C23: the inline source citations are removed only when a rendered source
\* list with at least one link replaces them: either they are retained, or a
\* source section with one link or more has been appended.
C23_CitationsKeptOrReplaced ==
    Enhanced => post.out.embeddedSources \/ Len(post.out.sourceLinks) >= 1

\* C24: the title fallback is used only when the identifier link is absent:
\* a current item that carries an event_uid is linked to the event registered
\* under that identifier or to no event at all, never to an event found
\* through its title.
C24_UidItemNeverLinkedByTitle ==
    (Enhanced /\ post.out.currentItem # <<>>
     /\ post.out.currentItem[1].event_uid # <<>>) =>
        \/ post.out.event = <<>>
        \/ post.out.event[1].uid = post.out.currentItem[1].event_uid

-----------------------------------------------------------------------------
(* Further properties of the tag-archive page *)

\* C25: a transport failure of the archive fetch ends in a status that
\* reports the load failure, and the chain settles (no rejection escapes it).
C25_ArchiveFailureReported ==
    (tagPage # <<>> /\ tagPage.archive # <<>> /\ ~tagPage.archive[1].ok) =>
        /\ tagPage.pc = "done" \/ tagPage.events = <<>> \/ ENABLED TagPromiseAllThen
        /\ tagPage.pc = "done" => tagPage.status = TagStatusUnable

-----------------------------------------------------------------------------
(* Further properties of the archive page *)

MinOf(a, b) == IF a < b THEN a ELSE b

\* C26: a call of renderNextPage made while rendered < length of the active
\* subset appends exactly k = min(PAGE_SIZE, length - rendered) cards, those of
\* the items at positions rendered .. rendered+k-1 (counted from 0) in order,
\* and increases rendered by k.
C26_NextPageIsMinOfPageAndRemaining ==
    rendered < Len(items) =>
        \A R \in {renderNextPage(View)} :
            LET k == MinOf(PAGE_SIZE, Len(items) - rendered)
            IN  /\ R.rendered = rendered + k
                /\ Len(R.listEl) = Len(listEl) + k
                /\ SubSeq(R.listEl, 1, Len(listEl)) = listEl
                /\ \A j \in 1..k : R.listEl[Len(listEl) + j] = createCard(items[rendered + j])
\* a short second page has been appended after a full first page
C26_Witness ==
    /\ Len(items) = PAGE_SIZE + 1 /\ rendered = PAGE_SIZE + 1
    /\ Len(listEl) = PAGE_SIZE + 1
    /\ listEl[PAGE_SIZE + 1] = createCard(items[PAGE_SIZE + 1])

\* C27: with a load-more control present, after every completed handler the
\* control is visible iff rendered < length of the active subset, with or
\* without IntersectionObserver support; and once everything is rendered no
\* trigger is offered (the control is hidden and no observer is connected).
C27_LoadMoreVisibleIffItemsRemain ==
    dom.loadMoreBtn =>
        /\ ~loadMoreHidden <=> rendered < Len(items)
        /\ rendered >= Len(items) => observer # "connected"
\* a first page is shown without IntersectionObserver and the control is the
\* sole trigger
C27_Witness ==
    /\ dom.loadMoreBtn /\ ~dom.intersectionObserver
    /\ rendered = PAGE_SIZE /\ Len(items) = PAGE_SIZE + 1
    /\ ~loadMoreHidden /\ observer = "null"
\* the control has been used and everything is rendered
C27_WitnessAllRendered ==
    /\ dom.loadMoreBtn /\ ~dom.intersectionObserver
    /\ rendered = PAGE_SIZE + 1 /\ Len(items) = PAGE_SIZE + 1 /\ loadMoreHidden

\* C28: after ingestion no operation changes the loaded catalogue: allItems
\* keeps the same items in the same order, and ingestion itself stores the
\* items of the payload as they were received.
C28_CatalogueNeverChanges ==
    [][/\ fetchState # "pending" => allItems' = allItems
       /\ (fetchState = "pending" /\ allItems' # allItems)
              => \E payload \in ArchivePayloads : payload.hasItems /\ allItems' = payload.items]_vars
\* filters were applied and a second page rendered over an ingested catalogue
C28_Witness ==
    /\ fetchState = "done" /\ Len(allItems) = PAGE_SIZE + 1
    /\ filters.cluster # <<>> /\ filters.timeframe = TxtSeven /\ searchTimer.state = "fired"
    /\ Len(items) < Len(allItems)

\* s is a subsequence of t: s is obtained from t by deleting entries
RECURSIVE IsSubsequence(_, _)
IsSubsequence(s, t) ==
    IF s = <<>> THEN TRUE
    ELSE IF t = <<>> THEN FALSE
    ELSE IF Head(s) = Head(t) THEN IsSubsequence(Tail(s), Tail(t))
    ELSE IsSubsequence(s, Tail(t))

\* C29: the active subset is a subsequence of the full catalogue: every active
\* item is a catalogue item, none occurs more often than in the catalogue, and
\* relative catalogue order is preserved.
C29_SubsetIsSubsequenceOfCatalogue == IsSubsequence(items, allItems)
\* a filter keeps several, but not all, items of a two-page catalogue
C29_Witness ==
    /\ Len(allItems) = PAGE_SIZE + 1
    /\ Len(items) >= 2 /\ Len(items) < Len(allItems)
    /\ items[1] # allItems[1]

-----------------------------------------------------------------------------
(* Further properties of the highlight rotator *)

\* C30: with N >= 1 loaded items the shown index stays within 0..N-1; the
\* first shown index after load is 0; a timer tick moves index i to
\* (i+1) mod N; a dot click on position j sets the index to j and restarts
\* the timer (the previous interval is cleared and, with more than one item,
\* one fresh interval runs).
C30_RotatorIndexSteps ==
    [][/\ hero'.items # <<>> => hero'.index \in 0..(Len(hero'.items) - 1)
       /\ (hero.items = <<>> /\ hero'.items # <<>>) => hero'.index = 0
       /\ RotateTimerFires => hero'.index = (hero.index + 1) % Len(hero.items)
       /\ \A j \in 0..(HIGHLIGHT_LIMIT - 1) :
             DotClick(j) =>
                 /\ hero'.index = j
                 /\ hero'.timer = (Len(hero.items) > 1)
                 /\ hero'.intervals = IF Len(hero.items) > 1 THEN 1 ELSE 0]_vars
\* the last of three or more items is shown while the rotation runs
C30_Witness ==
    /\ hero # <<>> /\ Len(hero.items) >= 3
    /\ hero.index = Len(hero.items) - 1
    /\ hero.timer /\ hero.intervals = 1

\* C31: at most one rotation timer exists, a timer exists only if more than
\* one item is loaded, and with zero or one items no timer is ever started.
C31_AtMostOneTimerOnlyWithSeveralItems ==
    hero # <<>> =>
        /\ hero.intervals <= 1
        /\ hero.timer <=> hero.intervals = 1
        /\ hero.intervals > 0 => Len(hero.items) > 1
\* a single highlight has been loaded on a visible page and no timer runs
C31_Witness ==
    /\ hero # <<>> /\ hero.pc = "done" /\ hero.ingests = 1
    /\ Len(hero.items) = 1 /\ ~hero.hidden
    /\ ~hero.timer /\ hero.intervals = 0

\* the largest clamped score of a non-empty list
MaxClampedScore(list) ==
    CHOOSE m \in {clampScore(list[i].score) : i \in 1..Len(list)} :
        \A i \in 1..Len(list) : clampScore(list[i].score) <= m

\* C32: the top-score statistic is the maximum of the clamped scores across
\* the displayed subset, shown as a number for a non-empty subset, and the
\* sentinel '--' when the subset is empty.
C32_TopScoreIsMaxOrSentinel ==
    (hero # <<>> /\ hero.ingests = 1) =>
        hero.statScore = IF hero.items = <<>> THEN TxtDashes
                         ELSE ToDigits(MathRound(MaxClampedScore(hero.items)))

-----------------------------------------------------------------------------
(* Further properties of the tag functions *)

\* a text made only of whitespace, underscores, hyphens or punctuation
IsBlankText(text) == \A i \in 1..Len(text) : toLowerCase(<<text[i]>>)[1] \notin (LowerSet \cup DigitChars)

\* C33: every tag of a reconciled tag list has a non-empty slug and a
\* non-empty label, and a candidate made only of whitespace, underscores,
\* hyphens or punctuation is dropped, so no such tag is in the list.
C33_TagsHaveSlugAndLabel ==
    (fn # <<>> /\ fn.pc = "collected") =>
        \A i \in 1..Len(fn.out) :
            /\ fn.out[i].slug # <<>> /\ fn.out[i].label # <<>>
            /\ ~IsBlankText(fn.out[i].slug) /\ ~IsBlankText(fn.out[i].label)

\* C34: every slug of a reconciled tag list is a fixed point of the page's
\* slugify, whatever the origin of the tag.
C34_SlugsAreNormalized ==
    (fn # <<>> /\ fn.pc = "collected") =>
        \A i \in 1..Len(fn.out) :
            fn.out[i].slug = IF fn.variant = "post" THEN slugify(fn.out[i].slug)
                             ELSE slugify_tagArchive(fn.out[i].slug)

-----------------------------------------------------------------------------
(* Reset, search timers and pagination progress on the archive page *)

\* C35: a reset cancels pending debounced search work: the step of
\* handleReset leaves the all-pass default filter state and no pending search
\* timer, so no timer started before the reset can fire later and re-apply
\* its query.
C35_ResetCancelsPendingSearch ==
    [][(ResetClick \/ ResetTimerFires) => (filters' = DefaultFilters /\ searchPending' = {})]_vars

\* C36: a single reset action triggers finitely many filter re-applications:
\* every run of the timeout scheduled by the form's reset listener leaves
\* fewer such timeouts pending than before, so the page becomes quiescent.
C36_ResetSettles ==
    [][ResetTimerFires => resetTimers' < resetTimers]_vars

-----------------------------------------------------------------------------
(* Tag links across the post page and the tag-archive page *)

\* the slugs under which the tag-archive page lists an item with its event
TagArchiveSlugs(item, event) ==
    LET tags == collectTagsFromItem_tagArchive(item, event)
    IN  {tags[i].slug : i \in 1..Len(tags)}

\* C37: each tag slug the post page derives for an item (from the item's
\* cluster, its explicit tags or its event) is, once carried in the tag
\* parameter of the related-tag link, a slug under which the tag-archive page
\* lists that same item.
C37_PostTagLinksResolve ==
    (fn # <<>> /\ fn.pc = "collected" /\ fn.variant = "post"
     /\ fn.item # <<>> /\ fn.domTags = <<>>) =>
        \A i \in 1..Len(fn.out) :
            tagSlugOf(fn.out[i].slug) \in TagArchiveSlugs(fn.item, fn.event)

\* a step that applies no filter: a pagination trigger, a keystroke that only
\* schedules its timer, or the passing of time
NoFilterApplication ==
    \/ \E isIntersecting \in BOOLEAN : onIntersection(isIntersecting)
    \/ onLoadMore
    \/ \E value \in SearchInputs : handleSearchInput(value)
    \/ Tick
\* the pagination trigger fires: the sentinel comes into view, or load-more is clicked
PaginationTrigger == onIntersection(TRUE) \/ onLoadMore

\* the archive page with a pagination trigger that keeps firing
SpecPaging == Init /\ [][Next]_vars /\ WF_vars(PaginationTrigger)

\* C38: once no filter is applied any more and the pagination trigger keeps
\* firing, rendered eventually equals the length of the active subset and
\* stays so; the pages rendered since the filter application are full pages
\* up to the last one, so at most ceil(length / PAGE_SIZE) renders are needed;
\* and once everything is rendered a trigger changes nothing.
C38_PaginationExhausts ==
    /\ [](rendered = Len(items) \/ (rendered % PAGE_SIZE = 0 /\ (items # <<>> => rendered > 0)))
    /\ [][(rendered = Len(items) /\ ((\E b \in BOOLEAN : onIntersection(b)) \/ onLoadMore))
              => UNCHANGED <<items, rendered, listEl, observer, loadMoreHidden, statusText>>]_vars
    /\ (<>[][NoFilterApplication]_vars) => <>[](rendered = Len(items))
\* the last page of a two-page subset was rendered by the load-more control
C38_Witness ==
    /\ fetchState = "done" /\ Len(items) = PAGE_SIZE + 1 /\ rendered = Len(items)
    /\ dom.loadMoreBtn /\ ~dom.sentinelEl /\ loadMoreHidden
    /\ Len(listEl) = PAGE_SIZE + 1

-----------------------------------------------------------------------------
(* The joined fetches of the highlight rotator *)

\* the first HIGHLIGHT_LIMIT entries of a leaderboard
TopRisks(list) ==
    SubSeq(list, 1, IF Len(list) < HIGHLIGHT_LIMIT THEN Len(list) ELSE HIGHLIGHT_LIMIT)
WellFormed(payload) ==
    payload.ok /\ payload.hasList /\ \A i \in 1..Len(payload.list) : ~payload.list[i].isNull

\* C39: the rotator ingests at most once and only after both fetches have
\* settled; the highlights depend on the two payloads only, not on the order
\* in which they arrived; a failed archive fetch yields the leaderboard's top
\* entries unchanged and in order; a failed leaderboard fetch yields the
\* unavailable message, no highlights and no timer.
C39_FetchesJoinedOnce ==
    hero # <<>> =>
        /\ hero.ingests <= 1
        /\ (hero.ingests = 1 \/ hero.items # <<>>)
              => (hero.pc = "done" /\ hero.leaderboard # <<>> /\ hero.archive # <<>>)
        /\ (hero.pc = "done" /\ WellFormed(hero.leaderboard[1]))
              => /\ hero.ingests = 1
                 /\ hero.items = enrichHighlights(TopRisks(hero.leaderboard[1].list), hero.archive[1])
        /\ (hero.pc = "done" /\ WellFormed(hero.leaderboard[1]) /\ ~hero.archive[1].ok)
              => hero.items = TopRisks(hero.leaderboard[1].list)
        /\ (hero.pc = "done" /\ ~hero.leaderboard[1].ok)
              => /\ hero.summaryText = TxtLeaderboardUnavailable
                 /\ hero.items = <<>> /\ hero.ingests = 0
                 /\ ~hero.timer /\ hero.intervals = 0
\* the archive fetch failed and the five top entries of a longer leaderboard
\* are shown as they came
C39_Witness ==
    /\ hero # <<>> /\ hero.pc = "done" /\ hero.archive = <<Failed>>
    /\ hero.leaderboard[1].hasList /\ Len(hero.leaderboard[1].list) > HIGHLIGHT_LIMIT
    /\ hero.ingests = 1 /\ Len(hero.items) = HIGHLIGHT_LIMIT
    /\ hero.items[1] = hero.leaderboard[1].list[1]

=============================================================================
